---- MODULE Spec2Model ----
(***************************************************************************)
(* Dispatch and mobilization engine of gisa-backend: the work-order        *)
(* lifecycle (WorkOrderService), the emergency protocol (EmergencyService),*)
(* the intake from GEOCALL (GeocallService), the fleet alerts              *)
(* (GpsTrackingService) and the HTTP handlers and timers that drive them.  *)
(*                                                                         *)
(* The store is modelled table by table; every SQL statement of a handler  *)
(* is an operator on the tables it reads and writes, and a handler is the  *)
(* sequence of its statements.  Query results are taken in the shape the   *)
(* calling code consumes them (the rows the statement selects).            *)
(*                                                                         *)
(* Locations are points of a line measured in whole kilometres, so the     *)
(* great-circle distance of two points is the absolute difference.         *)
(* Scores are kept in hundredths (weights are percentages), so that the    *)
(* weighted sum stays an integer.                                          *)
(***************************************************************************)
EXTENDS Integers, Sequences, FiniteSets, TLC

\* ------------------------------------------------------------------ bounds
MaxRequired == 2   \* teamsRequired of an activation
MaxHistory == 3    \* rows of work_order_status_history
MaxTimeline == 3   \* rows of emergency_timeline
MaxTime == 1       \* ticks of the store's clock
MaxBatch == 2      \* orders in one answer of GEOCALL
MaxClock == 40     \* hours the fleet is followed
MaxSyncLog == 3    \* rows of geocall_sync_log when a handler is called
MaxActive == 8     \* active_work_orders of a row of the teams query
MaxRows == 2       \* unexpired rows of team_competences of one crew and one type

\* --------------------------------------------------------------- constants
NULL == 0 - 1

Orders == {1, 2}
Teams == {1, 2, 3}
Emergencies == {1, 2}
Users == {"u1", "u2"}
NoUser == "NULL"
Locations == {0, 10}
Vehicles == {1, 2}
ExternalIds == {"g1", "g2"}   \* the orders GEOCALL knows

Priorities == {"ALTA", "MEDIA", "BASSA"}

OrderStatuses ==
  {"ricevuto", "assegnato", "preso_in_carico", "in_viaggio", "arrivato_sul_posto",
   "in_lavorazione", "completato", "validato", "sospeso"}

TeamStatuses == {"disponibile", "in_viaggio", "in_lavorazione", "fuori_servizio"}

WorkOrderTypes == {"riparazione_perdita", "spurgo_fogna", "altro"}

VARIABLES
  work_orders,        \* table work_orders: id -> row (present = FALSE: no such row)
  teams,              \* table teams: id -> row
  status_history,     \* table work_order_status_history, in insertion order
  emergencies,        \* table emergencies: id -> row
  emergency_teams,    \* table emergency_teams: <<emergency id, team id>> -> row
  emergency_timeline, \* table emergency_timeline, in insertion order
  team_competences,   \* table team_competences: team -> competence type -> unexpired rows
  system_config,      \* table system_config: key -> value (NULL, "NULL": no such key)
  vehicles,           \* table vehicles: id -> row
  vehicle_alerts,     \* table vehicle_alerts, in insertion order
  vehicle_gps_tracks, \* table vehicle_gps_tracks: the distinct rows
  geocall_sync_log,   \* table geocall_sync_log: the distinct rows
  timers,             \* the auto-assignments set with setTimeout and not yet fired: order ids
  now,                \* the store's clock (NOW(), CURRENT_TIMESTAMP)
  inflight,           \* the requests being served: slot -> position and locals
  response            \* slot -> what the last request served in the slot returned

tables ==
  <<work_orders, teams, status_history, emergencies, emergency_teams, emergency_timeline>>
static == <<team_competences, system_config>>
fleet == <<vehicles, vehicle_alerts, vehicle_gps_tracks>>
geocall == <<geocall_sync_log, timers>>
vars == <<tables, static, fleet, geocall, now, inflight, response>>

Slots == {1, 2}
Idle == [op |-> "idle"]
NoResponse == [op |-> "none", ok |-> TRUE, error |-> "none"]

Min(a, b) == IF a < b THEN a ELSE b
Max(a, b) == IF a > b THEN a ELSE b
Abs(a) == IF a < 0 THEN 0 - a ELSE a

\* ---------------------------------------------------------------- GeoScore

DefaultWeightDistance == 40
DefaultWeightCompetence == 25
DefaultWeightMaterials == 20
DefaultWeightWorkload == 15

\* parseFloat(value) || default: a missing key and a zero both fall to the default
WeightOrDefault(value, default) == IF value = NULL \/ value = 0 THEN default ELSE value

getScoringWeights ==
  [distance   |-> WeightOrDefault(system_config["scoring_weight_distance"], DefaultWeightDistance),
   competence |-> WeightOrDefault(system_config["scoring_weight_competence"], DefaultWeightCompetence),
   materials  |-> WeightOrDefault(system_config["scoring_weight_materials"], DefaultWeightMaterials),
   workload   |-> WeightOrDefault(system_config["scoring_weight_workload"], DefaultWeightWorkload)]

getRequiredCompetences(type) ==
  CASE type = "riparazione_perdita" -> {"saldatura_polietilene", "lavori_scavo"}
    [] type = "spurgo_fogna" -> {"autospurgo", "ambienti_confinati"}
    [] OTHER -> {}

getRequiredMaterials(type) ==
  CASE type = "riparazione_perdita" -> {"tubo_pe_100mm", "raccordi", "nastro_segnalatore"}
    [] OTHER -> {}

CompetenceTypes ==
  {"saldatura_polietilene", "lavori_scavo", "autospurgo", "ambienti_confinati"}

RECURSIVE SumOver(_, _)
SumOver(f, S) ==
  IF S = {} THEN 0
  ELSE LET x == CHOOSE y \in S : TRUE IN f[x] + SumOver(f, S \ {x})

Distance(a, b) == Abs(a - b)

\* the line of the locations runs along a parallel and crosses the meridian of Greenwich
\* at this mark: there, and only there, the longitude is 0
PrimeMeridian == 20

\* ST_X of a location of the line; its ST_Y is the same everywhere and is not 0
Longitude(l) == l - PrimeMeridian

\* !x of a coordinate: true of null and of 0
Falsy(x) == x = NULL \/ x = 0

\* !team.latitude || !team.longitude || !workOrder.location, then !odlCoords.lon
calculateDistanceScore(wos, o, team) ==
  IF team.location = NULL \/ Falsy(Longitude(team.location)) \/ wos[o].location = NULL THEN 0
  ELSE IF Falsy(Longitude(wos[o].location)) THEN 0
  ELSE Max(0, 100 - Distance(team.location, wos[o].location))

\* COUNT(*) of the team's unexpired rows whose type is required, over the number required
calculateCompetenceScore(wos, o, t) ==
  LET required == getRequiredCompetences(wos[o].type) IN
  IF required = {} THEN 100
  ELSE (SumOver(team_competences[t], required) * 100) \div Cardinality(required)

calculateMaterialsScore(wos, o) ==
  IF getRequiredMaterials(wos[o].type) = {} THEN 100 ELSE 70

\* as calculateWorkloadScore, without Math.max
calculateWorkloadScore_Unclamped(activeOrders) == 100 - activeOrders * 20

calculateWorkloadScore(activeOrders) == Max(0, 100 - activeOrders * 20)

\* orders of team t that are neither completato nor validato
ActiveWorkOrders(wos, t) ==
  Cardinality({o \in Orders : /\ wos[o].present
                              /\ wos[o].assigned_team_id = t
                              /\ wos[o].status \notin {"completato", "validato"}})

CandidateTeams_All(tms) == Teams

CandidateTeams(tms) ==
  {t \in Teams : /\ tms[t].is_active
                 /\ tms[t].status \in {"disponibile", "in_viaggio", "in_lavorazione"}}

\* as totalScore, but never above 100 (in hundredths)
totalScore_Clamped(scores, weights) ==
  Min(10000, scores.distance * weights.distance + scores.competence * weights.competence
             + scores.materials * weights.materials + scores.workload * weights.workload)

\* const totalScore = (scores.distance * weights.distance + ...), in hundredths
totalScore(scores, weights) ==
  scores.distance * weights.distance + scores.competence * weights.competence
  + scores.materials * weights.materials + scores.workload * weights.workload

\* total_score of team t for order o, in hundredths
TotalScore(wos, tms, o, t) ==
  totalScore([distance |-> calculateDistanceScore(wos, o, tms[t]),
              competence |-> calculateCompetenceScore(wos, o, t),
              materials |-> calculateMaterialsScore(wos, o),
              workload |-> calculateWorkloadScore(ActiveWorkOrders(wos, t))],
             getScoringWeights)

\* "ok" with the scored candidates, or the error calculateOptimalAssignment throws
calculateOptimalAssignment(wos, tms, o) ==
  IF ~wos[o].present THEN [error |-> "ODL non trovato", scored |-> {}]
  ELSE IF CandidateTeams(tms) = {} THEN [error |-> "Nessuna squadra disponibile", scored |-> {}]
  ELSE [error |-> "none",
        scored |-> {[team_id |-> t, total_score |-> TotalScore(wos, tms, o, t)] :
                      t \in CandidateTeams(tms)}]

\* as SelectedScore, but a team that is not found gets the best score of the list
SelectedScore_OrBest(scored, t) ==
  IF \E a \in scored : a.team_id = t
  THEN (CHOOSE a \in scored : a.team_id = t).total_score
  ELSE IF scored = {} THEN 0
  ELSE (CHOOSE a \in scored : \A x \in scored : x.total_score <= a.total_score).total_score

\* assignments.find(a => a.team_id === teamId), then selectedTeam?.total_score || 0
SelectedScore(scored, t) ==
  IF \E a \in scored : a.team_id = t
  THEN (CHOOSE a \in scored : a.team_id = t).total_score
  ELSE 0

\* ------------------------------------------------------ WorkOrderLifecycle

\* UPDATE work_orders SET assigned_team_id, assigned_by, assigned_at, ... WHERE id = o
AssignUpdateOrder(wos, o, t, assignedBy, mode, score) ==
  IF ~wos[o].present THEN wos
  ELSE [wos EXCEPT ![o].assigned_team_id = t,
                   ![o].assigned_by = assignedBy,
                   ![o].assigned_at = now,
                   ![o].assignment_mode = mode,
                   ![o].assignment_score = score,
                   ![o].status = "assegnato"]

\* INSERT INTO work_order_status_history ... SELECT o, status, 'assegnato', by FROM work_orders
AssignInsertHistory(hist, wos, o, assignedBy) ==
  IF ~wos[o].present THEN hist
  ELSE Append(hist, [work_order_id |-> o, old_status |-> wos[o].status,
                     new_status |-> "assegnato", changed_by |-> assignedBy])

getTimestampField(status) ==
  CASE status = "assegnato" -> "assigned_at"
    [] status = "preso_in_carico" -> "taken_in_charge_at"
    [] status = "in_viaggio" -> "departure_at"
    [] status = "arrivato_sul_posto" -> "arrival_at"
    [] status = "in_lavorazione" -> "work_started_at"
    [] status = "completato" -> "work_completed_at"
    [] status = "validato" -> "validated_at"
    [] OTHER -> "none"

\* UPDATE work_orders SET status = s, <timestamp field> = NOW() WHERE id = o
UpdateStatusOrder(wos, o, newStatus) ==
  LET field == getTimestampField(newStatus) IN
  IF ~wos[o].present THEN wos
  ELSE IF field = "none" THEN [wos EXCEPT ![o].status = newStatus]
  ELSE [wos EXCEPT ![o].status = newStatus, ![o][field] = now]

\* INSERT INTO work_order_status_history VALUES (o, old, new, user)
UpdateStatusInsertHistory(hist, o, oldStatus, newStatus, userId) ==
  Append(hist, [work_order_id |-> o, old_status |-> oldStatus,
                new_status |-> newStatus, changed_by |-> userId])

\* as TeamStatusFor, but a completed order leaves its team at work
TeamStatusFor_StillBusy(newStatus) ==
  CASE newStatus = "in_viaggio" -> "in_viaggio"
    [] newStatus = "in_lavorazione" -> "in_lavorazione"
    [] newStatus = "completato" -> "in_lavorazione"
    [] OTHER -> "none"

\* the team status updateStatus asks for, "none" when it asks for nothing
TeamStatusFor(newStatus) ==
  CASE newStatus = "in_viaggio" -> "in_viaggio"
    [] newStatus = "in_lavorazione" -> "in_lavorazione"
    [] newStatus = "completato" -> "disponibile"
    [] OTHER -> "none"

\* as updateTeamStatus, without the WHERE
updateTeamStatus_Every(tms, wos, o, status) ==
  [t \in Teams |-> [tms[t] EXCEPT !.status = status]]

\* UPDATE teams SET status = s WHERE id = (SELECT assigned_team_id FROM work_orders WHERE id = o)
updateTeamStatus(tms, wos, o, status) ==
  [t \in Teams |->
     IF wos[o].present /\ wos[o].assigned_team_id = t
     THEN [tms[t] EXCEPT !.status = status]
     ELSE tms[t]]

\* UPDATE work_orders SET status = 'completato', work_completed_at = NOW() WHERE id = o
CompleteUpdateOrder(wos, o) ==
  IF ~wos[o].present THEN wos
  ELSE [wos EXCEPT ![o].status = "completato", ![o].work_completed_at = now]

\* ---------------------------------------------------- EmergencyCoordinator

\* COUNT(*) of the emergencies of the month, plus one
generateEmergencyCode(ems) ==
  Cardinality({e \in Emergencies : ems[e].present}) + 1

\* the id the store gives the next row of emergencies
NextEmergencyId(ems) == Cardinality({e \in Emergencies : ems[e].present}) + 1

\* INSERT INTO emergencies (..., status, activated_at, ...) VALUES (..., 'attiva', now, ...)
InsertEmergency(ems, e, code, location, teamsRequired, activatedBy) ==
  [ems EXCEPT ![e] = [present |-> TRUE, code |-> code, status |-> "attiva",
                      location |-> location, teams_required |-> teamsRequired,
                      activated_at |-> now, activated_by |-> activatedBy,
                      deactivated_at |-> NULL, deactivated_by |-> NoUser]]

\* INSERT INTO emergency_timeline (emergency_id, event_type, performed_by)
logTimeline(tl, e, eventType, performedBy) ==
  Append(tl, [emergency_id |-> e, event_type |-> eventType, performed_by |-> performedBy])

\* as MobilizableTeams, without the test of the status
MobilizableTeams_AnyStatus(tms) == {t \in Teams : tms[t].is_active}

\* t.is_active = true AND t.status != 'fuori_servizio'
MobilizableTeams(tms) ==
  {t \in Teams : tms[t].is_active /\ tms[t].status # "fuori_servizio"}

DistanceKm(tms, t, location) ==
  IF tms[t].location = NULL \/ location = NULL THEN NULL
  ELSE Distance(tms[t].location, location)

\* ORDER BY distance_km ASC, active_work_orders ASC: row a sorts strictly before row b
\* (a NULL distance sorts first or last, as the store's dialect has it)
SortsBefore(tms, wos, location, nullsFirst, a, b) ==
  LET da == DistanceKm(tms, a, location)
      db == DistanceKm(tms, b, location)
      ca == ActiveWorkOrders(wos, a)
      cb == ActiveWorkOrders(wos, b)
  IN  IF da = NULL /\ db = NULL THEN ca < cb
      ELSE IF da = NULL THEN nullsFirst
      ELSE IF db = NULL THEN ~nullsFirst
      ELSE da < db \/ (da = db /\ ca < cb)

\* the row sequences the SELECT ... ORDER BY ... LIMIT :teamsRequired may return
identifyTeamsToMobilize(tms, wos, location, teamsRequired, nullsFirst) ==
  LET pool == MobilizableTeams(tms)
      n == Min(teamsRequired, Cardinality(pool))
  IN  {sq \in [1..n -> pool] :
         /\ \A i, j \in 1..n : i < j =>
              /\ sq[i] # sq[j]
              /\ ~SortsBefore(tms, wos, location, nullsFirst, sq[j], sq[i])
         /\ \A u \in pool \ {sq[i] : i \in 1..n} : \A i \in 1..n :
              ~SortsBefore(tms, wos, location, nullsFirst, u, sq[i])}

NoEmergencyTeam == [status |-> "none", mobilized_at |-> NULL, demobilized_at |-> NULL]

\* INSERT INTO emergency_teams (emergency_id, team_id, mobilized_at, status)
MobilizeInsertTeam(ets, e, t) ==
  [ets EXCEPT ![<<e, t>>] = [status |-> "allertata", mobilized_at |-> now,
                             demobilized_at |-> NULL]]

\* UPDATE teams SET status = 'in_viaggio' WHERE id = t
MobilizeUpdateTeam(tms, t) == [tms EXCEPT ![t].status = "in_viaggio"]

\* as MobilizeSuspendOrders, without the test of the priority
MobilizeSuspendOrders_AnyPriority(wos, t, e) ==
  [o \in Orders |->
     IF /\ wos[o].present
        /\ wos[o].assigned_team_id = t
        /\ wos[o].status \in {"assegnato", "in_viaggio"}
     THEN [wos[o] EXCEPT !.status = "sospeso", !.notes = Append(@, e)]
     ELSE wos[o]]

\* UPDATE work_orders SET status = 'sospeso', notes = CONCAT(notes, ..., e)
\*  WHERE assigned_team_id = t AND status IN ('assegnato','in_viaggio') AND priority != 'ALTA'
MobilizeSuspendOrders(wos, t, e) ==
  [o \in Orders |->
     IF /\ wos[o].present
        /\ wos[o].assigned_team_id = t
        /\ wos[o].status \in {"assegnato", "in_viaggio"}
        /\ wos[o].priority # "ALTA"
     THEN [wos[o] EXCEPT !.status = "sospeso", !.notes = Append(@, e)]
     ELSE wos[o]]

\* UPDATE emergencies SET status = 'risolta', deactivated_at = now, deactivated_by WHERE id = e
DeactivateUpdateEmergency(ems, e, deactivatedBy) ==
  IF ~ems[e].present THEN ems
  ELSE [ems EXCEPT ![e].status = "risolta",
                   ![e].deactivated_at = now,
                   ![e].deactivated_by = deactivatedBy]

\* as DeactivateDemobilize, without the test of the status
DeactivateDemobilize_Again(ets, e) ==
  [k \in DOMAIN ets |->
     IF k[1] = e /\ ets[k].status # "none"
     THEN [ets[k] EXCEPT !.status = "smobilitata", !.demobilized_at = now]
     ELSE ets[k]]

\* UPDATE emergency_teams SET status = 'smobilitata', demobilized_at = now
\*  WHERE emergency_id = e AND status != 'smobilitata'
DeactivateDemobilize(ets, e) ==
  [k \in DOMAIN ets |->
     IF k[1] = e /\ ets[k].status \notin {"none", "smobilitata"}
     THEN [ets[k] EXCEPT !.status = "smobilitata", !.demobilized_at = now]
     ELSE ets[k]]

\* SELECT team_id FROM emergency_teams WHERE emergency_id = e
DeactivateSelectTeams(ets, e) == {t \in Teams : ets[<<e, t>>].status # "none"}

\* as DeactivateRestoreTeam, leaving the team as it is
DeactivateRestoreTeam_Skip(tms, t) == tms

\* UPDATE teams SET status = 'disponibile' WHERE id = t
DeactivateRestoreTeam(tms, t) == [tms EXCEPT ![t].status = "disponibile"]

\* ------------------------------------------------------------ the handlers
\* A request is served in a slot: it begins, runs its statements one at a time (every
\* statement is awaited, so other requests may run in between) and returns its response.
\* `fails` says that the store rejects the statement (a StorageError).

Goto(s, r) ==
  /\ inflight' = [inflight EXCEPT ![s] = r]
  /\ UNCHANGED response

Respond(s, r) ==
  /\ inflight' = [inflight EXCEPT ![s] = Idle]
  /\ response' = [response EXCEPT ![s] = r]

Throw(s, message) ==
  Respond(s, [op |-> inflight[s].op, ok |-> FALSE, error |-> message])

\* the tables as a request finds them: what undoing the request would restore
Snapshot ==
  [work_orders |-> work_orders, teams |-> teams, status_history |-> status_history,
   emergencies |-> emergencies, emergency_teams |-> emergency_teams,
   emergency_timeline |-> emergency_timeline]

Begin(s, r) ==
  /\ inflight[s] = Idle
  /\ inflight' = [inflight EXCEPT ![s] = r @@ [found |-> Snapshot]]
  /\ response' = [response EXCEPT ![s] = NoResponse]
  /\ UNCHANGED <<tables, static, fleet, geocall, now>>

At(s, op, pc) == inflight[s].op = op /\ inflight[s].pc = pc

\* history rows the requests in flight may still insert
PendingHistory ==
  Cardinality({s \in Slots : inflight[s].op \in {"assignWorkOrder", "updateStatus",
                                                   "autoAssignHighPriority"}})

PendingTimeline ==
  Cardinality({s \in Slots : inflight[s].op \in {"activateEmergency", "deactivateEmergency"}})

\* --- WorkOrderService.assignWorkOrder(workOrderId, teamId, assignedBy, mode)
BeginAssign(s, o, t, assignedBy, mode) ==
  /\ Len(status_history) + PendingHistory < MaxHistory
  /\ Begin(s, [op |-> "assignWorkOrder", pc |-> "calculate", o |-> o, t |-> t,
               by |-> assignedBy, mode |-> mode, score |-> 0])

AssignCalculate(s, fails) ==
  /\ At(s, "assignWorkOrder", "calculate")
  /\ LET r == inflight[s]
         c == calculateOptimalAssignment(work_orders, teams, r.o)
     IN  IF fails THEN Throw(s, "StorageError")
         ELSE IF c.error # "none" THEN Throw(s, c.error)
         ELSE Goto(s, [r EXCEPT !.pc = "update", !.score = SelectedScore(c.scored, r.t)])
  /\ UNCHANGED <<tables, static, fleet, geocall, now>>

AssignUpdate(s, fails) ==
  /\ At(s, "assignWorkOrder", "update")
  /\ LET r == inflight[s] IN
       IF fails THEN Throw(s, "StorageError") /\ UNCHANGED work_orders
       ELSE /\ work_orders' = AssignUpdateOrder(work_orders, r.o, r.t, r.by, r.mode, r.score)
            /\ Goto(s, [r EXCEPT !.pc = "history"])
  /\ UNCHANGED <<teams, status_history, emergencies, emergency_teams, emergency_timeline,
                 static, fleet, geocall, now>>

AssignHistory(s, fails) ==
  /\ At(s, "assignWorkOrder", "history")
  /\ LET r == inflight[s] IN
       IF fails THEN Throw(s, "StorageError") /\ UNCHANGED status_history
       ELSE /\ status_history' = AssignInsertHistory(status_history, work_orders, r.o, r.by)
            /\ Respond(s, [op |-> "assignWorkOrder", ok |-> TRUE, error |-> "none",
                           o |-> r.o, team_id |-> r.t, by |-> r.by, score |-> r.score])
  /\ UNCHANGED <<work_orders, teams, emergencies, emergency_teams, emergency_timeline,
                 static, fleet, geocall, now>>

\* --- WorkOrderService.updateStatus(workOrderId, newStatus, userId)
BeginUpdateStatus(s, o, newStatus, userId) ==
  /\ Len(status_history) + PendingHistory < MaxHistory
  /\ Begin(s, [op |-> "updateStatus", pc |-> "read", o |-> o, status |-> newStatus,
               by |-> userId, old |-> "none"])

\* as UpdateStatusRead, without the test of the row
UpdateStatusRead_Unchecked(s, fails) ==
  /\ At(s, "updateStatus", "read")
  /\ LET r == inflight[s] IN
       IF fails THEN Throw(s, "StorageError")
       ELSE Goto(s, [r EXCEPT !.pc = "update", !.old = work_orders[r.o].status])
  /\ UNCHANGED <<tables, static, fleet, geocall, now>>

UpdateStatusRead(s, fails) ==
  /\ At(s, "updateStatus", "read")
  /\ LET r == inflight[s] IN
       IF fails THEN Throw(s, "StorageError")
       ELSE IF ~work_orders[r.o].present THEN Throw(s, "ODL non trovato")
       ELSE Goto(s, [r EXCEPT !.pc = "update", !.old = work_orders[r.o].status])
  /\ UNCHANGED <<tables, static, fleet, geocall, now>>

UpdateStatusUpdate(s, fails) ==
  /\ At(s, "updateStatus", "update")
  /\ LET r == inflight[s] IN
       IF fails THEN Throw(s, "StorageError") /\ UNCHANGED work_orders
       ELSE /\ work_orders' = UpdateStatusOrder(work_orders, r.o, r.status)
            /\ Goto(s, [r EXCEPT !.pc = "history"])
  /\ UNCHANGED <<teams, status_history, emergencies, emergency_teams, emergency_timeline,
                 static, fleet, geocall, now>>

UpdateStatusHistory(s, fails) ==
  /\ At(s, "updateStatus", "history")
  /\ LET r == inflight[s] IN
       IF fails THEN Throw(s, "StorageError") /\ UNCHANGED status_history
       ELSE /\ status_history' =
                 UpdateStatusInsertHistory(status_history, r.o, r.old, r.status, r.by)
            /\ IF TeamStatusFor(r.status) = "none"
               THEN Respond(s, [op |-> "updateStatus", ok |-> TRUE, error |-> "none",
                                o |-> r.o, status |-> r.status])
               ELSE Goto(s, [r EXCEPT !.pc = "team"])
  /\ UNCHANGED <<work_orders, teams, emergencies, emergency_teams, emergency_timeline,
                 static, fleet, geocall, now>>

\* updateTeamStatus catches and logs the store's error: the handler goes on
UpdateStatusTeam(s, fails) ==
  /\ At(s, "updateStatus", "team")
  /\ LET r == inflight[s] IN
       /\ teams' = IF fails THEN teams
                   ELSE updateTeamStatus(teams, work_orders, r.o, TeamStatusFor(r.status))
       /\ Respond(s, [op |-> "updateStatus", ok |-> TRUE, error |-> "none",
                      o |-> r.o, status |-> r.status])
  /\ UNCHANGED <<work_orders, status_history, emergencies, emergency_teams,
                 emergency_timeline, static, fleet, geocall, now>>

\* --- workOrderController.completeWorkOrder (POST /:id/complete)
BeginComplete(s, o) ==
  /\ inflight[s] = Idle
  /\ Begin(s, [op |-> "completeWorkOrder", pc |-> "update", o |-> o])

CompleteUpdate(s, fails) ==
  /\ At(s, "completeWorkOrder", "update")
  /\ LET r == inflight[s] IN
       IF fails THEN Throw(s, "StorageError") /\ UNCHANGED work_orders
       ELSE /\ work_orders' = CompleteUpdateOrder(work_orders, r.o)
            /\ Respond(s, [op |-> "completeWorkOrder", ok |-> TRUE, error |-> "none",
                           o |-> r.o])
  /\ UNCHANGED <<teams, status_history, emergencies, emergency_teams, emergency_timeline,
                 static, fleet, geocall, now>>

\* --- EmergencyService.activateEmergency(emergencyData, activatedBy)
BeginActivate(s, location, teamsRequired, activatedBy) ==
  /\ NextEmergencyId(emergencies) + Cardinality({x \in Slots \ {s} :
        inflight[x].op = "activateEmergency" /\ inflight[x].pc \in {"code", "insert"}})
       <= Cardinality(Emergencies)
  /\ Len(emergency_timeline) + PendingTimeline < MaxTimeline
  /\ Begin(s, [op |-> "activateEmergency", pc |-> "code", location |-> location,
               required |-> teamsRequired, by |-> activatedBy,
               e |-> 0, code |-> 0, selected |-> <<>>, i |-> 0])

ActivateCode(s, fails) ==
  /\ At(s, "activateEmergency", "code")
  /\ LET r == inflight[s] IN
       IF fails THEN Throw(s, "StorageError")
       ELSE Goto(s, [r EXCEPT !.pc = "insert", !.code = generateEmergencyCode(emergencies)])
  /\ UNCHANGED <<tables, static, fleet, geocall, now>>

ActivateInsert(s, fails) ==
  /\ At(s, "activateEmergency", "insert")
  /\ LET r == inflight[s]
         e == NextEmergencyId(emergencies)
     IN  IF fails THEN Throw(s, "StorageError") /\ UNCHANGED emergencies
         ELSE /\ emergencies' =
                   InsertEmergency(emergencies, e, r.code, r.location, r.required, r.by)
              /\ Goto(s, [r EXCEPT !.pc = "timeline", !.e = e])
  /\ UNCHANGED <<work_orders, teams, status_history, emergency_teams, emergency_timeline,
                 static, fleet, geocall, now>>

\* logTimeline catches and logs the store's error: the handler goes on
ActivateTimeline(s, fails) ==
  /\ At(s, "activateEmergency", "timeline")
  /\ LET r == inflight[s] IN
       /\ emergency_timeline' =
            IF fails THEN emergency_timeline
            ELSE logTimeline(emergency_timeline, r.e, "emergenza_attivata", r.by)
       /\ Goto(s, [r EXCEPT !.pc = "identify"])
  /\ UNCHANGED <<work_orders, teams, status_history, emergencies, emergency_teams,
                 static, fleet, geocall, now>>

ActivateResponse(r, selected) ==
  [op |-> "activateEmergency", ok |-> TRUE, error |-> "none",
   emergencyId |-> r.e, code |-> r.code, mobilizedTeams |-> selected]

ActivateIdentify(s, fails) ==
  /\ At(s, "activateEmergency", "identify")
  /\ LET r == inflight[s] IN
       IF fails THEN Throw(s, "StorageError")
       ELSE \E nullsFirst \in BOOLEAN :
            \E sq \in identifyTeamsToMobilize(teams, work_orders, r.location, r.required,
                                              nullsFirst) :
              IF Len(sq) = 0 THEN Respond(s, ActivateResponse(r, sq))
              ELSE Goto(s, [r EXCEPT !.pc = "mobilize_insert", !.selected = sq, !.i = 1])
  /\ UNCHANGED <<tables, static, fleet, geocall, now>>

\* --- EmergencyService.mobilizeTeam(emergencyId, teamId), once per selected team
MobilizeInsert(s, fails) ==
  /\ At(s, "activateEmergency", "mobilize_insert")
  /\ LET r == inflight[s] IN
       IF fails THEN Throw(s, "StorageError") /\ UNCHANGED emergency_teams
       ELSE /\ emergency_teams' = MobilizeInsertTeam(emergency_teams, r.e, r.selected[r.i])
            /\ Goto(s, [r EXCEPT !.pc = "mobilize_team"])
  /\ UNCHANGED <<work_orders, teams, status_history, emergencies, emergency_timeline,
                 static, fleet, geocall, now>>

MobilizeTeam(s, fails) ==
  /\ At(s, "activateEmergency", "mobilize_team")
  /\ LET r == inflight[s] IN
       IF fails THEN Throw(s, "StorageError") /\ UNCHANGED teams
       ELSE /\ teams' = MobilizeUpdateTeam(teams, r.selected[r.i])
            /\ Goto(s, [r EXCEPT !.pc = "mobilize_orders"])
  /\ UNCHANGED <<work_orders, status_history, emergencies, emergency_teams,
                 emergency_timeline, static, fleet, geocall, now>>

MobilizeOrders(s, fails) ==
  /\ At(s, "activateEmergency", "mobilize_orders")
  /\ LET r == inflight[s] IN
       IF fails THEN Throw(s, "StorageError") /\ UNCHANGED work_orders
       ELSE /\ work_orders' = MobilizeSuspendOrders(work_orders, r.selected[r.i], r.e)
            /\ IF r.i < Len(r.selected)
               THEN Goto(s, [r EXCEPT !.pc = "mobilize_insert", !.i = r.i + 1])
               ELSE Respond(s, ActivateResponse(r, r.selected))
  /\ UNCHANGED <<teams, status_history, emergencies, emergency_teams, emergency_timeline,
                 static, fleet, geocall, now>>

\* --- EmergencyService.deactivateEmergency(emergencyId, deactivatedBy)
BeginDeactivate(s, e, deactivatedBy) ==
  /\ Len(emergency_timeline) + PendingTimeline < MaxTimeline
  /\ Begin(s, [op |-> "deactivateEmergency", pc |-> "emergency", e |-> e,
               by |-> deactivatedBy, todo |-> {}])

DeactivateEmergencyRow(s, fails) ==
  /\ At(s, "deactivateEmergency", "emergency")
  /\ LET r == inflight[s] IN
       IF fails THEN Throw(s, "StorageError") /\ UNCHANGED emergencies
       ELSE /\ emergencies' = DeactivateUpdateEmergency(emergencies, r.e, r.by)
            /\ Goto(s, [r EXCEPT !.pc = "demobilize"])
  /\ UNCHANGED <<work_orders, teams, status_history, emergency_teams, emergency_timeline,
                 static, fleet, geocall, now>>

DeactivateTeams(s, fails) ==
  /\ At(s, "deactivateEmergency", "demobilize")
  /\ LET r == inflight[s] IN
       IF fails THEN Throw(s, "StorageError") /\ UNCHANGED emergency_teams
       ELSE /\ emergency_teams' = DeactivateDemobilize(emergency_teams, r.e)
            /\ Goto(s, [r EXCEPT !.pc = "select"])
  /\ UNCHANGED <<work_orders, teams, status_history, emergencies, emergency_timeline,
                 static, fleet, geocall, now>>

DeactivateSelect(s, fails) ==
  /\ At(s, "deactivateEmergency", "select")
  /\ LET r == inflight[s]
         rows == DeactivateSelectTeams(emergency_teams, r.e)
     IN  IF fails THEN Throw(s, "StorageError")
         ELSE Goto(s, [r EXCEPT !.pc = IF rows = {} THEN "timeline" ELSE "restore",
                                !.todo = rows])
  /\ UNCHANGED <<tables, static, fleet, geocall, now>>

\* as DeactivateRestore, but the orders of the team suspended for the emergency are
\* given back to it
DeactivateRestore_Resume(s, fails) ==
  /\ At(s, "deactivateEmergency", "restore")
  /\ LET r == inflight[s] IN
       IF fails THEN Throw(s, "StorageError") /\ UNCHANGED <<teams, work_orders>>
       ELSE \E t \in r.todo :
              /\ teams' = DeactivateRestoreTeam(teams, t)
              /\ work_orders' =
                   [o \in Orders |->
                      IF work_orders[o].assigned_team_id = t /\ work_orders[o].status = "sospeso"
                      THEN [work_orders[o] EXCEPT !.status = "assegnato"]
                      ELSE work_orders[o]]
              /\ Goto(s, [r EXCEPT !.pc = IF r.todo = {t} THEN "timeline" ELSE "restore",
                                   !.todo = r.todo \ {t}])
  /\ UNCHANGED <<status_history, emergencies, emergency_teams,
                 emergency_timeline, static, fleet, geocall, now>>

\* the loop over the selected rows, in the order the store returned them
DeactivateRestore(s, fails) ==
  /\ At(s, "deactivateEmergency", "restore")
  /\ LET r == inflight[s] IN
       IF fails THEN Throw(s, "StorageError") /\ UNCHANGED teams
       ELSE \E t \in r.todo :
              /\ teams' = DeactivateRestoreTeam(teams, t)
              /\ Goto(s, [r EXCEPT !.pc = IF r.todo = {t} THEN "timeline" ELSE "restore",
                                   !.todo = r.todo \ {t}])
  /\ UNCHANGED <<work_orders, status_history, emergencies, emergency_teams,
                 emergency_timeline, static, fleet, geocall, now>>

DeactivateTimeline(s, fails) ==
  /\ At(s, "deactivateEmergency", "timeline")
  /\ LET r == inflight[s] IN
       /\ emergency_timeline' =
            IF fails THEN emergency_timeline
            ELSE logTimeline(emergency_timeline, r.e, "emergenza_risolta", r.by)
       /\ Goto(s, [r EXCEPT !.pc = "report"])
  /\ UNCHANGED <<work_orders, teams, status_history, emergencies, emergency_teams,
                 static, fleet, geocall, now>>

\* generateEmergencyReport: the emergency, its teams and its timeline, as stored
generateEmergencyReport(ems, ets, tl, e) ==
  [status |-> ems[e].status,
   activated_at |-> ems[e].activated_at,
   deactivated_at |-> ems[e].deactivated_at,
   teams |-> {[team_id |-> t, status |-> ets[<<e, t>>].status,
               demobilized_at |-> ets[<<e, t>>].demobilized_at] :
                t \in {x \in Teams : ets[<<e, x>>].status # "none"}},
   events |-> Len(SelectSeq(tl, LAMBDA ev : ev.emergency_id = e))]

DeactivateReport(s, fails) ==
  /\ At(s, "deactivateEmergency", "report")
  /\ LET r == inflight[s] IN
       IF fails THEN Throw(s, "StorageError")
       ELSE IF ~emergencies[r.e].present THEN Throw(s, "Emergency not found")
       ELSE Respond(s, [op |-> "deactivateEmergency", ok |-> TRUE, error |-> "none",
                        e |-> r.e,
                        report |-> generateEmergencyReport(emergencies, emergency_teams,
                                                           emergency_timeline, r.e)])
  /\ UNCHANGED <<tables, static, fleet, geocall, now>>

\* the store's clock advances
Tick ==
  /\ now < MaxTime
  /\ \A s \in Slots : inflight[s] = Idle
  /\ now' = now + 1
  /\ UNCHANGED <<tables, static, fleet, geocall, inflight, response>>

\* ------------------------------------------------------- initial states

NewWorkOrder(geocallId, code, priority, type, location) ==
  [present |-> TRUE, geocall_id |-> geocallId, code |-> code,
   status |-> "ricevuto", priority |-> priority, type |-> type,
   location |-> location, assigned_team_id |-> NULL, assigned_by |-> NoUser,
   assignment_mode |-> "NULL", assignment_score |-> NULL, notes |-> <<>>,
   assigned_at |-> NULL, taken_in_charge_at |-> NULL, departure_at |-> NULL,
   arrival_at |-> NULL, work_started_at |-> NULL, work_completed_at |-> NULL,
   validated_at |-> NULL]

NoWorkOrder == [NewWorkOrder("NULL", 0, "MEDIA", "altro", NULL) EXCEPT !.present = FALSE]

\* order o as importWorkOrder stored it: the o-th order of the month, GEOCALL's order "g<o>"
GeocallIdOf == [o \in Orders |-> IF o = 1 THEN "g1" ELSE "g2"]
ImportedWorkOrder(o, priority) == NewWorkOrder(GeocallIdOf[o], o, priority, "altro", 0)

NoEmergency ==
  [present |-> FALSE, code |-> 0, status |-> "none", location |-> NULL,
   teams_required |-> 0, activated_at |-> NULL, activated_by |-> NoUser,
   deactivated_at |-> NULL, deactivated_by |-> NoUser]

ConfigKeys ==
  {"scoring_weight_distance", "scoring_weight_competence", "scoring_weight_materials",
   "scoring_weight_workload", "auto_assignment_high_priority", "priority_response_times"}

Dispatcher == "u1"

\* the tables after assignWorkOrder(o, t, assignedBy, mode) has run on wos and hist
AssignEffect(db, tms, o, t, assignedBy, mode) ==
  LET c == calculateOptimalAssignment(db.wos, tms, o)
      updated == AssignUpdateOrder(db.wos, o, t, assignedBy, mode, SelectedScore(c.scored, t))
  IN  IF c.error # "none" THEN db
      ELSE [wos |-> updated, hist |-> AssignInsertHistory(db.hist, updated, o, assignedBy)]

\* the orders of `todo` assigned one after the other as plan says (NULL: left ricevuto)
RECURSIVE DispatchAll(_, _, _, _)
DispatchAll(db, tms, plan, todo) ==
  IF todo = {} THEN db
  ELSE LET o == CHOOSE x \in todo : \A y \in todo : x <= y IN
       DispatchAll(IF plan[o] = NULL THEN db
                   ELSE AssignEffect(db, tms, o, plan[o], Dispatcher, "semi-automatica"),
                   tms, plan, todo \ {o})

AutoAssignKey == "auto_assignment_high_priority"

\* no emergency yet, no alert, no timer; vehicle v is the vehicle of crew crew[v];
\* the scoring weights are not configured, the response times are configured as null
\* and the auto-assignment key holds `flag`
InitTables(flag, crew) ==
  /\ emergencies = [e \in Emergencies |-> NoEmergency]
  /\ emergency_teams = [k \in Emergencies \X Teams |-> NoEmergencyTeam]
  /\ emergency_timeline = <<>>
  /\ team_competences = [t \in Teams |-> [c \in CompetenceTypes |-> 0]]
  /\ system_config = [k \in ConfigKeys |-> CASE k = AutoAssignKey -> flag
                                            [] k = "priority_response_times" -> 0
                                            [] OTHER -> NULL]
  /\ vehicles = [v \in Vehicles |-> [assigned_team_id |-> crew[v], location |-> NULL]]
  /\ vehicle_alerts = <<>>
  /\ vehicle_gps_tracks = {}
  /\ geocall_sync_log = {}
  /\ timers = {}
  /\ now = 0
  /\ inflight = [s \in Slots |-> Idle]
  /\ response = [s \in Slots |-> NoResponse]

\* every vehicle v is the vehicle of crew v
InitStore(flag) == InitTables(flag, [v \in Vehicles |-> v])

InitEmpty == InitStore("true")

\* three crews in service: crew 1 at km 0, the others at km 10
InitTeams ==
  teams = [t \in Teams |->
             [status |-> "disponibile", is_active |-> TRUE,
              location |-> IF t = 1 THEN 0 ELSE 10]]

\* order 1 is urgent, the others are not
InitPriorities ==
  {prio \in [Orders -> Priorities] :
     prio[1] = "ALTA" /\ \A o \in Orders \ {1} : prio[o] # "ALTA"}

\* order 1 has been received and is not assigned yet, no other order is in the store
InitReceived ==
  /\ InitEmpty
  /\ InitTeams
  /\ \E prio \in Priorities :
       work_orders = [o \in Orders |-> IF o = 1 THEN ImportedWorkOrder(o, prio)
                                       ELSE NoWorkOrder]
  /\ status_history = <<>>

\* the orders already assigned to crews by assignWorkOrder
InitDispatched ==
  /\ InitEmpty
  /\ InitTeams
  /\ \E prio \in InitPriorities, plan \in [Orders -> Teams] :
       LET db == DispatchAll([wos |-> [o \in Orders |-> ImportedWorkOrder(o, prio[o])],
                              hist |-> <<>>],
                             teams, plan, Orders)
       IN  /\ work_orders = db.wos
           /\ status_history = db.hist

\* ---------------------------------------------------------- GeocallService

\* what GEOCALL says of its order g: "g1" is urgent, the others are not
GeocallPriority(g) == IF g = "g1" THEN "ALTA" ELSE "MEDIA"

\* response.data.work_orders of one GET /work-orders/new
Batches == UNION {[1..n -> ExternalIds] : n \in 0..MaxBatch}

ExistingWorkOrders_None(wos, g) == {}

\* SELECT id FROM work_orders WHERE geocall_id = g
ExistingWorkOrders(wos, g) == {o \in Orders : wos[o].present /\ wos[o].geocall_id = g}

\* SELECT COUNT(*) of the month, plus one (every order of the model is of the same month)
generateWorkOrderCode(wos) == Cardinality({o \in Orders : wos[o].present}) + 1

\* config[0].value || defaults: a TypeError when the key has no row
getResponseTimes ==
  IF system_config["priority_response_times"] = NULL THEN "TypeError" ELSE "none"

\* the id the store gives the row of INSERT INTO work_orders ... RETURNING id
NextWorkOrderId(wos) == Cardinality({o \in Orders : wos[o].present}) + 1

\* INSERT INTO work_orders (geocall_id, code, priority, ..., status) VALUES (..., 'ricevuto')
InsertWorkOrder(wos, id, g, code) ==
  [wos EXCEPT ![id] = NewWorkOrder(g, code, GeocallPriority(g), "altro", 0)]

\* rows of work_orders the run r may still insert: the orders of its batch that it
\* did not find in the store
PendingImports(r, wos) ==
  Cardinality({i \in 1..Len(r.batch) : ExistingWorkOrders(wos, r.batch[i]) = {}})

RunsInFlight == {s \in Slots : inflight[s].op = "fetchNewWorkOrders"}

\* --- GeocallService.fetchNewWorkOrders(), started by the cron task or by POST /geocall/sync
BeginPoll(s, trigger, batch) ==
  /\ Cardinality({o \in Orders : work_orders[o].present})
       + SumOver([x \in RunsInFlight |-> PendingImports(inflight[x], inflight[x].found.work_orders)],
                 RunsInFlight)
       + PendingImports([batch |-> batch], work_orders) <= Cardinality(Orders)
  /\ Begin(s, [op |-> "fetchNewWorkOrders", pc |-> "select", trigger |-> trigger,
               batch |-> batch, imported |-> <<>>, code |-> 0])

\* INSERT INTO geocall_sync_log (work_order_id, sync_type, direction, request_payload, status)
logSync(log, workOrderId, syncType, direction, requestPayload, status) ==
  log \cup {[work_order_id |-> workOrderId, sync_type |-> syncType, direction |-> direction,
             request_payload |-> requestPayload, status |-> status]}

\* the end of one turn of the loop: logSync, then the next order of the batch
PollNext(s, r, id, status) ==
  /\ geocall_sync_log' =
       logSync(geocall_sync_log, id, "receive_odl", "incoming", <<Head(r.batch)>>, status)
  /\ Goto(s, [r EXCEPT !.pc = "select", !.batch = Tail(@),
                       !.imported = IF id = NULL THEN @ ELSE Append(@, id)])

\* importWorkOrder: is the order already in the store?
ImportSelect(s, fails) ==
  /\ At(s, "fetchNewWorkOrders", "select")
  /\ inflight[s].batch # <<>>
  /\ LET r == inflight[s]
         existing == ExistingWorkOrders(work_orders, Head(r.batch))
     IN  IF fails THEN PollNext(s, r, NULL, "error")
         ELSE IF existing # {} THEN \E o \in existing : PollNext(s, r, o, "success")
         ELSE Goto(s, [r EXCEPT !.pc = "code"]) /\ UNCHANGED geocall_sync_log
  /\ UNCHANGED <<tables, static, fleet, timers, now>>

\* importWorkOrder: generateWorkOrderCode and getResponseTimes
ImportCode(s, fails) ==
  /\ At(s, "fetchNewWorkOrders", "code")
  /\ LET r == inflight[s] IN
       IF fails \/ getResponseTimes # "none" THEN PollNext(s, r, NULL, "error")
       ELSE /\ Goto(s, [r EXCEPT !.pc = "insert", !.code = generateWorkOrderCode(work_orders)])
            /\ UNCHANGED geocall_sync_log
  /\ UNCHANGED <<tables, static, fleet, timers, now>>

\* importWorkOrder: the INSERT, and the timer of an urgent order
ImportInsert(s, fails) ==
  /\ At(s, "fetchNewWorkOrders", "insert")
  /\ LET r == inflight[s]
         g == Head(r.batch)
         id == NextWorkOrderId(work_orders)
     IN  IF fails THEN PollNext(s, r, NULL, "error") /\ UNCHANGED <<work_orders, timers>>
         ELSE /\ work_orders' = InsertWorkOrder(work_orders, id, g, r.code)
              /\ timers' = IF GeocallPriority(g) = "ALTA" THEN timers \cup {id} ELSE timers
              /\ PollNext(s, r, id, "success")
  /\ UNCHANGED <<teams, status_history, emergencies, emergency_teams, emergency_timeline,
                 static, fleet, now>>

\* the batch is done: return imported
PollReturn(s) ==
  /\ At(s, "fetchNewWorkOrders", "select")
  /\ inflight[s].batch = <<>>
  /\ Respond(s, [op |-> "fetchNewWorkOrders", ok |-> TRUE, error |-> "none",
                 imported |-> inflight[s].imported])
  /\ UNCHANGED <<tables, static, fleet, geocall, now>>

\* --- WorkOrderService.autoAssignHighPriority(workOrderId), run by the timer of the import

\* the rows of the teams query: one for each candidate crew and each of its vehicles
TeamVehicleRows(tms, vhs) ==
  {p \in CandidateTeams(tms) \X Vehicles : vhs[p[2]].assigned_team_id = p[1]}
  \cup {<<t, NULL>> : t \in {x \in CandidateTeams(tms) :
                               \A v \in Vehicles : vhs[v].assigned_team_id # x}}

\* scoredTeams.push({team_id, ..., scores, total_score, ...})
ScoredTeam(wos, tms, o, t) ==
  [team_id |-> t,
   scores |-> [distance |-> calculateDistanceScore(wos, o, tms[t]),
               competence |-> calculateCompetenceScore(wos, o, t),
               materials |-> calculateMaterialsScore(wos, o),
               workload |-> calculateWorkloadScore(ActiveWorkOrders(wos, t))],
   total_score |-> TotalScore(wos, tms, o, t)]

scoredTeams_Unsorted(wos, tms, vhs, o) ==
  LET rows == TeamVehicleRows(tms, vhs)
      n == Cardinality(rows)
  IN  {[i \in 1..n |-> ScoredTeam(wos, tms, o, f[i][1])] :
         f \in {g \in [1..n -> rows] : \A i, j \in 1..n : i # j => g[i] # g[j]}}

\* the lists calculateOptimalAssignment may return: the rows in any order the store
\* gives them, scored, then sorted by decreasing total_score (the sort is stable)
scoredTeams(wos, tms, vhs, o) ==
  LET rows == TeamVehicleRows(tms, vhs)
      n == Cardinality(rows)
      orders == {f \in [1..n -> rows] : \A i, j \in 1..n : i # j => f[i] # f[j]}
      scored(f) == [i \in 1..n |-> ScoredTeam(wos, tms, o, f[i][1])]
  IN  {scored(f) : f \in {g \in orders :
         \A i, j \in 1..n : i < j => TotalScore(wos, tms, o, g[i][1])
                                       >= TotalScore(wos, tms, o, g[j][1])}}

\* the timer of order o fires
FireTimer(s, o) ==
  /\ o \in timers
  /\ inflight[s] = Idle
  /\ Len(status_history) + PendingHistory < MaxHistory
  /\ timers' = timers \ {o}
  /\ inflight' = [inflight EXCEPT ![s] =
       [op |-> "autoAssignHighPriority", pc |-> "config", o |-> o, t |-> NULL,
        by |-> NoUser, mode |-> "automatica", score |-> 0, ranking |-> <<>>,
        found |-> Snapshot]]
  /\ response' = [response EXCEPT ![s] = NoResponse]
  /\ UNCHANGED <<tables, static, fleet, geocall_sync_log, now>>

\* const [config] = SELECT ... WHERE key = 'auto_assignment_high_priority'; config.enabled
AutoConfig(s, fails) ==
  /\ At(s, "autoAssignHighPriority", "config")
  /\ LET r == inflight[s]
         enabled == system_config[AutoAssignKey]
     IN  IF fails THEN Throw(s, "StorageError")
         ELSE IF enabled = "NULL" THEN Throw(s, "TypeError")
         ELSE IF enabled # "true"
           THEN Respond(s, [op |-> r.op, ok |-> TRUE, error |-> "none", o |-> r.o,
                            returned |-> FALSE])
         ELSE Goto(s, [r EXCEPT !.pc = "rank"])
  /\ UNCHANGED <<tables, static, fleet, geocall, now>>

\* assignments = calculateOptimalAssignment(workOrderId); bestTeam = assignments[0]
AutoRank(s, fails) ==
  /\ At(s, "autoAssignHighPriority", "rank")
  /\ LET r == inflight[s]
         c == calculateOptimalAssignment(work_orders, teams, r.o)
     IN  IF fails THEN Throw(s, "StorageError")
         ELSE IF c.error # "none" THEN Throw(s, c.error)
         ELSE \E assignments \in scoredTeams(work_orders, teams, vehicles, r.o) :
                Goto(s, [r EXCEPT !.pc = "calculate", !.t = assignments[1].team_id,
                                  !.ranking = assignments])
  /\ UNCHANGED <<tables, static, fleet, geocall, now>>

\* assignWorkOrder(workOrderId, bestTeam.team_id, null, 'automatica'): its three statements
AutoAssignCalculate(s, fails) ==
  /\ At(s, "autoAssignHighPriority", "calculate")
  /\ LET r == inflight[s]
         c == calculateOptimalAssignment(work_orders, teams, r.o)
     IN  IF fails THEN Throw(s, "StorageError")
         ELSE IF c.error # "none" THEN Throw(s, c.error)
         ELSE Goto(s, [r EXCEPT !.pc = "update", !.score = SelectedScore(c.scored, r.t)])
  /\ UNCHANGED <<tables, static, fleet, geocall, now>>

AutoAssignUpdate(s, fails) ==
  /\ At(s, "autoAssignHighPriority", "update")
  /\ LET r == inflight[s] IN
       IF fails THEN Throw(s, "StorageError") /\ UNCHANGED work_orders
       ELSE /\ work_orders' = AssignUpdateOrder(work_orders, r.o, r.t, r.by, r.mode, r.score)
            /\ Goto(s, [r EXCEPT !.pc = "history"])
  /\ UNCHANGED <<teams, status_history, emergencies, emergency_teams, emergency_timeline,
                 static, fleet, geocall, now>>

AutoAssignHistory(s, fails) ==
  /\ At(s, "autoAssignHighPriority", "history")
  /\ LET r == inflight[s] IN
       IF fails THEN Throw(s, "StorageError") /\ UNCHANGED status_history
       ELSE /\ status_history' = AssignInsertHistory(status_history, work_orders, r.o, r.by)
            /\ Respond(s, [op |-> r.op, ok |-> TRUE, error |-> "none", o |-> r.o,
                           returned |-> TRUE, team_id |-> r.t, score |-> r.score,
                           ranking |-> r.ranking])
  /\ UNCHANGED <<work_orders, teams, emergencies, emergency_teams, emergency_timeline,
                 static, fleet, geocall, now>>

\* ------------------------------------------- workOrderController and GEOCALL
\* The HTTP handlers assignWorkOrder, updateStatus and completeWorkOrder call the service
\* (the steps above), then tell GEOCALL inside a try/catch of their own, then answer.

ControllerHandlers == {"assignWorkOrder", "updateStatus", "completeWorkOrder"}

\* the service has returned to the handler, which has not told GEOCALL yet
AwaitsSync(s) ==
  /\ inflight[s] = Idle
  /\ response[s].op \in ControllerHandlers
  /\ response[s].ok

\* sendCompletedReport for a completion, sendStatusUpdate for the others
SyncCall(handler) ==
  IF handler = "completeWorkOrder" THEN "sendCompletedReport" ELSE "sendStatusUpdate"

SyncType(call) == IF call = "sendCompletedReport" THEN "send_report" ELSE "send_status"

\* as ControllerResponse, but the collaborator's error reaches the caller
ControllerResponse_Propagate(handler, o, sync) ==
  [op |-> "res.json", ok |-> sync # "error",
   error |-> IF sync = "error" THEN "GeocallError" ELSE "none",
   handler |-> handler, o |-> o, sync |-> sync]

\* try { await geocallService.send...(id) } catch (error) { logger.error(...) }
\* res.json({ success: true, ... })
ControllerResponse(handler, o, sync) ==
  [op |-> "res.json", ok |-> TRUE, error |-> "none",
   handler |-> handler, o |-> o, sync |-> sync]

\* the handler goes on after the service: await geocallService.send...(id)
BeginSync(s) ==
  /\ AwaitsSync(s)
  /\ inflight' = [inflight EXCEPT ![s] =
       [op |-> SyncCall(response[s].op), pc |-> "select", o |-> response[s].o,
        handler |-> response[s].op, sent |-> <<>>, found |-> Snapshot]]
  /\ response' = [response EXCEPT ![s] = NoResponse]
  /\ UNCHANGED <<tables, static, fleet, geocall, now>>

InSync(s) == inflight[s].op \in {"sendStatusUpdate", "sendCompletedReport"}

SyncReturn(s, sync) ==
  Respond(s, ControllerResponse(inflight[s].handler, inflight[s].o, sync))

\* SELECT ... FROM work_orders WHERE id = :workOrderId; a row that is missing or is not
\* of GEOCALL ends sendStatusUpdate at once and makes sendCompletedReport throw
SyncSelect(s, fails) ==
  /\ InSync(s) /\ inflight[s].pc = "select"
  /\ LET r == inflight[s]
         odl == work_orders[r.o]
     IN  IF fails THEN Goto(s, [r EXCEPT !.pc = "log_error"])
         ELSE IF ~odl.present \/ odl.geocall_id = "NULL"
           THEN IF r.op = "sendStatusUpdate" THEN SyncReturn(s, "skipped")
                ELSE Goto(s, [r EXCEPT !.pc = "log_error"])
         ELSE Goto(s, [r EXCEPT !.sent = <<odl.status, odl.assigned_team_id>>,
                                !.pc = IF r.op = "sendCompletedReport" THEN "photos"
                                       ELSE IF odl.assigned_team_id # NULL THEN "team"
                                       ELSE "post"])
  /\ UNCHANGED <<tables, static, fleet, geocall, now>>

\* sendStatusUpdate: SELECT code, name FROM teams WHERE id = odl.assigned_team_id
\* sendCompletedReport: the photos, then the materials
SyncDetails(s, fails) ==
  /\ InSync(s) /\ inflight[s].pc \in {"team", "photos", "materials"}
  /\ LET r == inflight[s] IN
       IF fails THEN Goto(s, [r EXCEPT !.pc = "log_error"])
       ELSE Goto(s, [r EXCEPT !.pc = IF r.pc = "photos" THEN "materials" ELSE "post"])
  /\ UNCHANGED <<tables, static, fleet, geocall, now>>

\* this.client.post(...): `fails` says that GEOCALL does not answer, or answers an error
SyncPost(s, fails) ==
  /\ InSync(s) /\ inflight[s].pc = "post"
  /\ LET r == inflight[s] IN
       Goto(s, [r EXCEPT !.pc = IF fails THEN "log_error" ELSE "log"])
  /\ UNCHANGED <<tables, static, fleet, geocall, now>>

\* logSync(workOrderId, type, 'outgoing', payload, response.data, 'success'), or in the
\* catch logSync(workOrderId, type, 'outgoing', null, null, 'error', ...) and throw;
\* logSync logs the store's error and goes on
SyncLog(s, fails) ==
  /\ InSync(s) /\ inflight[s].pc \in {"log", "log_error"}
  /\ LET r == inflight[s]
         sync == IF r.pc = "log" THEN "success" ELSE "error"
     IN  /\ geocall_sync_log' =
              IF fails THEN geocall_sync_log
              ELSE logSync(geocall_sync_log, r.o, SyncType(r.op), "outgoing",
                           IF r.pc = "log" THEN r.sent ELSE <<>>, sync)
         /\ SyncReturn(s, sync)
  /\ UNCHANGED <<tables, static, fleet, timers, now>>

StepSync(s, fails) ==
  \/ SyncSelect(s, fails)
  \/ SyncDetails(s, fails)
  \/ SyncPost(s, fails)
  \/ SyncLog(s, fails)

\* -------------------------------------------------------- GpsTrackingService

SpeedLimit == 90
AlertWindow == 24          \* INTERVAL 24 HOUR
NightBegins == 22
NightEnds == 6

\* the clock counts hours and starts at midnight: new Date().getHours()
currentHour == now % 24

\* SELECT id FROM vehicle_alerts WHERE vehicle_id, alert_type, is_resolved = 0
\*   AND created_at > DATE_SUB(NOW(), INTERVAL 24 HOUR)
ExistingAlerts_None(alerts, v, alertType) == {}

ExistingAlerts(alerts, v, alertType) ==
  {i \in 1..Len(alerts) : /\ alerts[i].vehicle_id = v
                          /\ alerts[i].alert_type = alertType
                          /\ ~alerts[i].is_resolved
                          /\ alerts[i].created_at > now - AlertWindow}

\* INSERT INTO vehicle_alerts (vehicle_id, alert_type, description, severity)
InsertAlert(alerts, v, alertType, severity) ==
  Append(alerts, [vehicle_id |-> v, alert_type |-> alertType, severity |-> severity,
                  created_at |-> now, is_resolved |-> FALSE])

\* SELECT COUNT(*) ... JOIN emergencies e JOIN vehicles v ... ; result.count > 0
isVehicleInEmergency_Never(vhs, ems, ets, v) == FALSE

isVehicleInEmergency(vhs, ems, ets, v) ==
  \E e \in Emergencies, t \in Teams :
    /\ vhs[v].assigned_team_id = t
    /\ ems[e].present
    /\ ems[e].status \in {"attiva", "in_gestione"}
    /\ ets[<<e, t>>].status \in {"allertata", "in_viaggio", "sul_posto"}

\* --- GpsTrackingService.updateVehicleLocation(vehicleId, location, speed), POST /:id/gps
BeginGps(s, v, location, speed) ==
  /\ inflight[s] = Idle
  /\ Begin(s, [op |-> "updateVehicleLocation", pc |-> "track", v |-> v,
               location |-> location, speed |-> speed])

GpsReturn(s, r) ==
  Respond(s, [op |-> r.op, ok |-> TRUE, error |-> "none", v |-> r.v, speed |-> r.speed])

GpsInsertTrack(s, fails) ==
  /\ At(s, "updateVehicleLocation", "track")
  /\ LET r == inflight[s] IN
       IF fails THEN Throw(s, "StorageError") /\ UNCHANGED vehicle_gps_tracks
       ELSE /\ vehicle_gps_tracks' = vehicle_gps_tracks
                 \cup {[vehicle_id |-> r.v, location |-> r.location, speed |-> r.speed]}
            /\ Goto(s, [r EXCEPT !.pc = "vehicle"])
  /\ UNCHANGED <<tables, static, vehicles, vehicle_alerts, geocall, now>>

GpsUpdateVehicle(s, fails) ==
  /\ At(s, "updateVehicleLocation", "vehicle")
  /\ LET r == inflight[s] IN
       IF fails THEN Throw(s, "StorageError") /\ UNCHANGED vehicles
       ELSE /\ vehicles' = [vehicles EXCEPT ![r.v].location = r.location]
            /\ Goto(s, [r EXCEPT !.pc = "team"])
  /\ UNCHANGED <<tables, static, vehicle_alerts, vehicle_gps_tracks, geocall, now>>

\* UPDATE teams SET current_location WHERE id = (SELECT assigned_team_id FROM vehicles ...)
GpsUpdateTeam(s, fails) ==
  /\ At(s, "updateVehicleLocation", "team")
  /\ LET r == inflight[s] IN
       IF fails THEN Throw(s, "StorageError") /\ UNCHANGED teams
       ELSE /\ teams' = [t \in Teams |->
                           IF t = vehicles[r.v].assigned_team_id
                           THEN [teams[t] EXCEPT !.location = r.location]
                           ELSE teams[t]]
            /\ Goto(s, [r EXCEPT !.pc = "speed"])
  /\ UNCHANGED <<work_orders, status_history, emergencies, emergency_teams,
                 emergency_timeline, static, fleet, geocall, now>>

\* checkAnomalies: speed > 90, and the SELECT of createAlert('velocita_eccessiva')
GpsSpeedSelect(s, fails) ==
  /\ At(s, "updateVehicleLocation", "speed")
  /\ LET r == inflight[s] IN
       IF r.speed > SpeedLimit /\ ~fails
          /\ ExistingAlerts(vehicle_alerts, r.v, "velocita_eccessiva") = {}
       THEN Goto(s, [r EXCEPT !.pc = "speed_insert"])
       ELSE Goto(s, [r EXCEPT !.pc = "hour"])
  /\ UNCHANGED <<tables, static, fleet, geocall, now>>

GpsSpeedInsert(s, fails) ==
  /\ At(s, "updateVehicleLocation", "speed_insert")
  /\ LET r == inflight[s] IN
       /\ vehicle_alerts' = IF fails THEN vehicle_alerts
                            ELSE InsertAlert(vehicle_alerts, r.v, "velocita_eccessiva", "medium")
       /\ Goto(s, [r EXCEPT !.pc = "hour"])
  /\ UNCHANGED <<tables, static, vehicles, vehicle_gps_tracks, geocall, now>>

\* checkAnomalies: the hour, and isVehicleInEmergency
GpsHour(s, fails) ==
  /\ At(s, "updateVehicleLocation", "hour")
  /\ LET r == inflight[s] IN
       IF (currentHour >= NightBegins \/ currentHour < NightEnds) /\ ~fails
          /\ ~isVehicleInEmergency(vehicles, emergencies, emergency_teams, r.v)
       THEN Goto(s, [r EXCEPT !.pc = "night_select"])
       ELSE GpsReturn(s, r)
  /\ UNCHANGED <<tables, static, fleet, geocall, now>>

\* the SELECT of createAlert('uso_fuori_orario')
GpsNightSelect(s, fails) ==
  /\ At(s, "updateVehicleLocation", "night_select")
  /\ LET r == inflight[s] IN
       IF ~fails /\ ExistingAlerts(vehicle_alerts, r.v, "uso_fuori_orario") = {}
       THEN Goto(s, [r EXCEPT !.pc = "night_insert"])
       ELSE GpsReturn(s, r)
  /\ UNCHANGED <<tables, static, fleet, geocall, now>>

GpsNightInsert(s, fails) ==
  /\ At(s, "updateVehicleLocation", "night_insert")
  /\ LET r == inflight[s] IN
       /\ vehicle_alerts' = IF fails THEN vehicle_alerts
                            ELSE InsertAlert(vehicle_alerts, r.v, "uso_fuori_orario", "low")
       /\ GpsReturn(s, r)
  /\ UNCHANGED <<tables, static, vehicles, vehicle_gps_tracks, geocall, now>>

StepGps(s, fails) ==
  \/ GpsInsertTrack(s, fails)
  \/ GpsUpdateVehicle(s, fails)
  \/ GpsUpdateTeam(s, fails)
  \/ GpsSpeedSelect(s, fails)
  \/ GpsSpeedInsert(s, fails)
  \/ GpsHour(s, fails)
  \/ GpsNightSelect(s, fails)
  \/ GpsNightInsert(s, fails)

\* hours pass while no request is being served
Advance(h) ==
  /\ now + h <= MaxClock
  /\ \A s \in Slots : inflight[s] = Idle
  /\ now' = now + h
  /\ UNCHANGED <<tables, static, fleet, geocall, inflight, response>>

\* ------------------------------------------------------------ the steps

StepAssign(s, fails) ==
  \/ AssignCalculate(s, fails)
  \/ AssignUpdate(s, fails)
  \/ AssignHistory(s, fails)

StepPoll(s, fails) ==
  \/ ImportSelect(s, fails)
  \/ ImportCode(s, fails)
  \/ ImportInsert(s, fails)
  \/ PollReturn(s)

StepAutoAssign(s, fails) ==
  \/ AutoConfig(s, fails)
  \/ AutoRank(s, fails)
  \/ AutoAssignCalculate(s, fails)
  \/ AutoAssignUpdate(s, fails)
  \/ AutoAssignHistory(s, fails)

StepUpdateStatus(s, fails) ==
  \/ UpdateStatusRead(s, fails)
  \/ UpdateStatusUpdate(s, fails)
  \/ UpdateStatusHistory(s, fails)
  \/ UpdateStatusTeam(s, fails)

StepActivate(s, fails) ==
  \/ ActivateCode(s, fails)
  \/ ActivateInsert(s, fails)
  \/ ActivateTimeline(s, fails)
  \/ ActivateIdentify(s, fails)
  \/ MobilizeInsert(s, fails)
  \/ MobilizeTeam(s, fails)
  \/ MobilizeOrders(s, fails)

StepDeactivate(s, fails) ==
  \/ DeactivateEmergencyRow(s, fails)
  \/ DeactivateTeams(s, fails)
  \/ DeactivateSelect(s, fails)
  \/ DeactivateRestore(s, fails)
  \/ DeactivateTimeline(s, fails)
  \/ DeactivateReport(s, fails)

\* ------------------------------------------------------------------- Spec
\* The emergency protocol over dispatched crews: one request at a time, the store
\* accepts every statement.

FieldStatuses == {"in_viaggio", "in_lavorazione", "completato"}

RequestEmergency(s) ==
  \/ \E o \in Orders, st \in FieldStatuses : BeginUpdateStatus(s, o, st, Dispatcher)
  \/ \E k \in 1..MaxRequired : BeginActivate(s, 0, k, Dispatcher)
  \/ \E e \in Emergencies : BeginDeactivate(s, e, Dispatcher)

Next ==
  \/ RequestEmergency(1)
  \/ StepUpdateStatus(1, FALSE)
  \/ StepActivate(1, FALSE)
  \/ StepDeactivate(1, FALSE)
  \/ Tick

Spec == InitDispatched /\ [][Next]_vars

\* the same, and a request that has begun is served to its end
SpecFair ==
  /\ Spec
  /\ WF_vars(StepUpdateStatus(1, FALSE))
  /\ WF_vars(StepActivate(1, FALSE))
  /\ WF_vars(StepDeactivate(1, FALSE))

\* ---------------------------------------------------------- SpecLifecycle
\* The life of received orders: assignment, any status update, completion.

RequestLifecycle(s) ==
  \/ \E o \in Orders, t \in Teams : BeginAssign(s, o, t, Dispatcher, "semi-automatica")
  \/ \E o \in Orders, st \in OrderStatuses : BeginUpdateStatus(s, o, st, Dispatcher)
  \/ \E o \in Orders : BeginComplete(s, o)

NextLifecycle ==
  \/ RequestLifecycle(1)
  \/ StepAssign(1, FALSE)
  \/ StepUpdateStatus(1, FALSE)
  \/ CompleteUpdate(1, FALSE)

SpecLifecycle == InitReceived /\ [][NextLifecycle]_vars

\* --------------------------------------------------------------- SpecRace
\* Two dispatchers assign at the same time: the statements of their requests interleave.

NextRace ==
  \E s \in Slots :
    \/ \E o \in Orders, t \in Teams, u \in Users :
         BeginAssign(s, o, t, u, "semi-automatica")
    \/ StepAssign(s, FALSE)

SpecRace == InitReceived /\ [][NextRace]_vars

\* --------------------------------------------------------------- SpecFail
\* One request at a time, and the store may reject any statement. Once a request has
\* returned the store's error no other request is begun: the tables stay as the failure
\* left them.

RequestFail(s) ==
  /\ response[s].error # "StorageError"
  /\ \/ \E o \in Orders, t \in Teams : BeginAssign(s, o, t, Dispatcher, "semi-automatica")
     \/ \E o \in Orders, st \in FieldStatuses : BeginUpdateStatus(s, o, st, Dispatcher)
     \/ \E k \in 1..MaxRequired : BeginActivate(s, 0, k, Dispatcher)

NextFail ==
  \/ RequestFail(1)
  \/ \E fails \in BOOLEAN :
       \/ StepAssign(1, fails)
       \/ StepUpdateStatus(1, fails)
       \/ StepActivate(1, fails)

SpecFail == InitDispatched /\ [][NextFail]_vars

\* ----------------------------------------------------------- SpecMobilize
\* Activations over crews of every kind: away, out of service, retired, not located.

TeamRows ==
  {[status |-> "disponibile", is_active |-> TRUE, location |-> l] :
     l \in Locations \cup {NULL}}
  \cup {[status |-> "fuori_servizio", is_active |-> TRUE, location |-> 0],
        [status |-> "disponibile", is_active |-> FALSE, location |-> 0]}

InitMobilize ==
  /\ InitEmpty
  /\ teams \in [Teams -> TeamRows]
  /\ \E plan \in [Orders -> Teams] :
       LET db == DispatchAll([wos |-> [o \in Orders |-> ImportedWorkOrder(o, "MEDIA")],
                              hist |-> <<>>],
                             teams, plan, Orders)
       IN  /\ work_orders = db.wos
           /\ status_history = db.hist

NextMobilize ==
  \/ \E l \in Locations, k \in 1..MaxRequired : BeginActivate(1, l, k, Dispatcher)
  \/ StepActivate(1, FALSE)

SpecMobilize == InitMobilize /\ [][NextMobilize]_vars

\* ------------------------------------------------------------- SpecImport
\* One polling run at a time imports the orders of GEOCALL into an empty store; the
\* timers of the urgent ones fire in the other slot, where a dispatcher assigns by hand.

AutoAssignFlags == {"true", "false", "NULL"}

InitImport ==
  /\ \E flag \in AutoAssignFlags : InitStore(flag)
  /\ InitTeams
  /\ work_orders = [o \in Orders |-> NoWorkOrder]
  /\ status_history = <<>>

\* the dispatcher gives an order to crew 2, which the ranking does not put first
RequestAssignByHand(s) ==
  \E o \in Orders :
    /\ work_orders[o].present
    /\ BeginAssign(s, o, 2, Dispatcher, "semi-automatica")

NextImport ==
  \/ \E batch \in Batches : BeginPoll(1, "cron", batch)
  \/ StepPoll(1, FALSE)
  \/ \E o \in Orders : FireTimer(2, o)
  \/ StepAutoAssign(2, FALSE)
  \/ RequestAssignByHand(2)
  \/ StepAssign(2, FALSE)

SpecImport == InitImport /\ [][NextImport]_vars

\* --------------------------------------------------------- SpecImportRace
\* The cron task fires every 30 seconds whether or not the run before it has returned,
\* and POST /geocall/sync starts a run of its own: runs overlap.

Triggers == {"cron", "sync"}

NextImportRace ==
  \E s \in Slots :
    \/ \E trigger \in Triggers, batch \in Batches : BeginPoll(s, trigger, batch)
    \/ StepPoll(s, FALSE)
    \/ \E o \in Orders : FireTimer(s, o)
    \/ StepAutoAssign(s, FALSE)

SpecImportRace == InitImport /\ [][NextImportRace]_vars

\* ---------------------------------------------------------------- SpecGps
\* The vehicles report their position, slowly or fast, over a day and a half.

Speeds == {50, 95}
GpsLocations == {10}
ClockSteps == {8}

InitGps ==
  /\ InitEmpty
  /\ InitTeams
  /\ work_orders = [o \in Orders |-> NoWorkOrder]
  /\ status_history = <<>>

NextGps ==
  \/ \E v \in Vehicles, l \in GpsLocations, speed \in Speeds : BeginGps(1, v, l, speed)
  \/ StepGps(1, FALSE)
  \/ \E h \in ClockSteps : Advance(h)

SpecGps == InitGps /\ [][NextGps]_vars

\* ------------------------------------------------------------- SpecCurfew
\* Vehicle 1 moves at midnight and at noon while emergencies are activated and
\* deactivated; the requests are served one at a time.

CurfewSteps == {12}

RequestCurfew(s) ==
  \/ \E l \in GpsLocations, speed \in Speeds : BeginGps(s, 1, l, speed)
  \/ BeginActivate(s, 0, 1, Dispatcher)
  \/ \E e \in Emergencies : BeginDeactivate(s, e, Dispatcher)

NextCurfew ==
  \/ RequestCurfew(1)
  \/ StepGps(1, FALSE)
  \/ StepActivate(1, FALSE)
  \/ StepDeactivate(1, FALSE)
  \/ \E h \in CurfewSteps : Advance(h)

SpecCurfew == InitGps /\ [][NextCurfew]_vars

\* ------------------------------------------------------------ SpecRanking
\* Crews of every kind, with one vehicle each or two for crew 1; an order of GEOCALL is
\* in the store, given to a crew and perhaps completed; the urgent order comes in and its
\* timer ranks the crews.

RankingTeamRows ==
  {[status |-> "disponibile", is_active |-> TRUE, location |-> 0],
   [status |-> "in_lavorazione", is_active |-> TRUE, location |-> 10],
   [status |-> "fuori_servizio", is_active |-> TRUE, location |-> 0],
   [status |-> "disponibile", is_active |-> FALSE, location |-> 0]}

VehiclePlans == {[v \in Vehicles |-> v], [v \in Vehicles |-> 1]}

InitRanking ==
  /\ \E crew \in VehiclePlans : InitTables("true", crew)
  /\ teams \in [Teams -> RankingTeamRows]
  /\ \E t \in Teams, completed \in BOOLEAN :
       LET first == [o \in Orders |-> IF o = 1 THEN NewWorkOrder("g2", 1, "MEDIA", "altro", 0)
                                      ELSE NoWorkOrder]
           db == AssignEffect([wos |-> first, hist |-> <<>>], teams, 1, t,
                              Dispatcher, "semi-automatica")
       IN  /\ work_orders = IF completed THEN CompleteUpdateOrder(db.wos, 1) ELSE db.wos
           /\ status_history = db.hist

NextRanking ==
  \/ BeginPoll(1, "cron", <<"g1">>)
  \/ StepPoll(1, FALSE)
  \/ \E o \in Orders : FireTimer(2, o)
  \/ StepAutoAssign(2, FALSE)

SpecRanking == InitRanking /\ [][NextRanking]_vars

\* --------------------------------------------------------------- SpecSync
\* The HTTP handlers in slot 1 with a GEOCALL that may fail and a store that may reject
\* the statements of the synchronisation; in slot 2 the urgent order comes in from
\* GEOCALL and its timer assigns it. The slots are served one at a time.

SyncStatuses == {"in_viaggio", "sospeso"}

RequestSync(s) ==
  /\ ~AwaitsSync(s)
  /\ \A x \in Slots \ {s} : inflight[x] = Idle
  /\ Cardinality(geocall_sync_log) < MaxSyncLog
  /\ \/ BeginAssign(s, 1, 1, Dispatcher, "semi-automatica")
     \/ \E st \in SyncStatuses : BeginUpdateStatus(s, 1, st, Dispatcher)
     \/ \E o \in Orders : BeginComplete(s, o)

\* the cron task and the timers, while no handler is being served
BackgroundSync(s) ==
  /\ \A x \in Slots \ {s} : inflight[x] = Idle /\ ~AwaitsSync(x)
  /\ \/ BeginPoll(s, "cron", <<"g1">>)
     \/ \E o \in Orders : FireTimer(s, o)

NextSync ==
  \/ RequestSync(1)
  \/ StepAssign(1, FALSE)
  \/ StepUpdateStatus(1, FALSE)
  \/ CompleteUpdate(1, FALSE)
  \/ BeginSync(1)
  \/ \E fails \in BOOLEAN : StepSync(1, fails)
  \/ BackgroundSync(2)
  \/ StepPoll(2, FALSE)
  \/ StepAutoAssign(2, FALSE)

SpecSync == InitGps /\ [][NextSync]_vars

\* -------------------------------------------------------------- SpecScore
\* The body of the loop of calculateOptimalAssignment on one row of the teams query:
\* crew 1 near or far, on the meridian or not located, with any load and any number of
\* unexpired certificates; order 1 of any type, located or not; the weights configured or not.

ScoreLocations == {NULL, 0, 10, PrimeMeridian, 50, 100, 150}

ConfiguredWeights == {NULL, 100}

InitScore ==
  /\ emergencies = [e \in Emergencies |-> NoEmergency]
  /\ emergency_teams = [k \in Emergencies \X Teams |-> NoEmergencyTeam]
  /\ emergency_timeline = <<>>
  /\ status_history = <<>>
  /\ \E a, b \in 0..MaxRows :
       team_competences =
         [t \in Teams |-> [c \in CompetenceTypes |->
            IF t # 1 THEN 0
            ELSE CASE c = "saldatura_polietilene" -> a [] c = "lavori_scavo" -> b [] OTHER -> 0]]
  /\ \E w \in ConfiguredWeights :
       system_config = [k \in ConfigKeys |-> CASE k = AutoAssignKey -> "true"
                                                [] k = "priority_response_times" -> 0
                                                [] OTHER -> w]
  /\ \E l \in ScoreLocations :
       teams = [t \in Teams |-> [status |-> "disponibile", is_active |-> TRUE,
                                  location |-> IF t = 1 THEN l ELSE 10]]
  /\ \E type \in WorkOrderTypes, l \in {NULL, 0, PrimeMeridian} :
       work_orders = [o \in Orders |-> IF o = 1 THEN NewWorkOrder("g1", 1, "MEDIA", type, l)
                                       ELSE NoWorkOrder]
  /\ vehicles = [v \in Vehicles |-> [assigned_team_id |-> v, location |-> NULL]]
  /\ vehicle_alerts = <<>>
  /\ vehicle_gps_tracks = {}
  /\ geocall_sync_log = {}
  /\ timers = {}
  /\ now = 0
  /\ inflight = [s \in Slots |-> Idle]
  /\ response = [s \in Slots |-> NoResponse]

\* for (const team of teams): the row of crew t, whose COUNT(DISTINCT wo.id) is n
BeginScoring(s, o, t, n) ==
  /\ inflight[s] = Idle
  /\ inflight' = [inflight EXCEPT ![s] =
       [op |-> "calculateOptimalAssignment", pc |-> "score", o |-> o,
        team_id |-> t, active_work_orders |-> n, found |-> Snapshot]]
  /\ response' = [response EXCEPT ![s] = NoResponse]
  /\ UNCHANGED <<tables, static, fleet, geocall, now>>

\* scores.distance, .competence, .materials, .workload, totalScore; scoredTeams.push
ScoreTeamRow(s) ==
  /\ At(s, "calculateOptimalAssignment", "score")
  /\ LET r == inflight[s]
         scores == [distance |-> calculateDistanceScore(work_orders, r.o, teams[r.team_id]),
                    competence |-> calculateCompetenceScore(work_orders, r.o, r.team_id),
                    materials |-> calculateMaterialsScore(work_orders, r.o),
                    workload |-> calculateWorkloadScore(r.active_work_orders)]
     IN  Respond(s, [op |-> r.op, ok |-> TRUE, error |-> "none", o |-> r.o,
                     team_id |-> r.team_id, active_work_orders |-> r.active_work_orders,
                     scores |-> scores,
                     total_score |-> totalScore(scores, getScoringWeights)])
  /\ UNCHANGED <<tables, static, fleet, geocall, now>>

NextScore ==
  \/ \E n \in 0..MaxActive : BeginScoring(1, 1, 1, n)
  \/ ScoreTeamRow(1)

SpecScore == InitScore /\ [][NextScore]_vars

\* ================================================================ claims

\* ------------------------------------------------------------ SpecWeights
\* The same loop body with each weight configured on its own: absent, 0 or 0.30.

WeightKeys ==
  {"scoring_weight_distance", "scoring_weight_competence", "scoring_weight_materials",
   "scoring_weight_workload"}

WeightValues == {NULL, 0, 30}

InitWeights ==
  /\ emergencies = [e \in Emergencies |-> NoEmergency]
  /\ emergency_teams = [k \in Emergencies \X Teams |-> NoEmergencyTeam]
  /\ emergency_timeline = <<>>
  /\ status_history = <<>>
  /\ team_competences = [t \in Teams |-> [c \in CompetenceTypes |-> 0]]
  /\ \E w \in [WeightKeys -> WeightValues] :
       system_config = [k \in ConfigKeys |-> CASE k = AutoAssignKey -> "true"
                                                [] k = "priority_response_times" -> 0
                                                [] OTHER -> w[k]]
  /\ teams = [t \in Teams |-> [status |-> "disponibile", is_active |-> TRUE,
                                location |-> 10]]
  /\ \E type \in WorkOrderTypes :
       work_orders = [o \in Orders |-> IF o = 1 THEN NewWorkOrder("g1", 1, "MEDIA", type, 0)
                                       ELSE NoWorkOrder]
  /\ vehicles = [v \in Vehicles |-> [assigned_team_id |-> v, location |-> NULL]]
  /\ vehicle_alerts = <<>>
  /\ vehicle_gps_tracks = {}
  /\ geocall_sync_log = {}
  /\ timers = {}
  /\ now = 0
  /\ inflight = [s \in Slots |-> Idle]
  /\ response = [s \in Slots |-> NoResponse]

SpecWeights == InitWeights /\ [][NextScore]_vars

\* -------------------------------------------------------------- SpecAssign
\* A dispatcher gives the received order to any crew, in service or not, again and again.

AssignModes == {"semi-automatica", "manuale"}

InitAssign ==
  /\ InitEmpty
  /\ teams \in [Teams -> RankingTeamRows]
  /\ work_orders = [o \in Orders |-> IF o = 1 THEN ImportedWorkOrder(o, "MEDIA")
                                     ELSE NoWorkOrder]
  /\ status_history = <<>>

NextAssign ==
  \/ \E o \in Orders, t \in Teams, u \in Users, mode \in AssignModes :
       BeginAssign(1, o, t, u, mode)
  \/ StepAssign(1, FALSE)
  \/ Tick

SpecAssign == InitAssign /\ [][NextAssign]_vars


\* ------------------------------------------------------------- SpecGpsRace
\* Vehicle 1 reports twice at once: the two requests of POST /:id/gps are served
\* statement by statement, in any order.

NextGpsRace ==
  \/ \E s \in Slots :
       \/ \E l \in GpsLocations, speed \in Speeds : BeginGps(s, 1, l, speed)
       \/ StepGps(s, FALSE)
  \/ \E h \in ClockSteps : Advance(h)

SpecGpsRace == InitGps /\ [][NextGpsRace]_vars

\* ------------------------------------------------------------- SpecResume
\* Orders of no urgency given to crews 1 and 2; an emergency at km 0 takes crew 1 and
\* is deactivated, and the dispatcher goes on updating, assigning and completing.

ResumeStatuses == {"in_viaggio", "assegnato"}

InitResume ==
  /\ InitEmpty
  /\ InitTeams
  /\ \E plan \in [Orders -> {1, 2}] :
       LET db == DispatchAll([wos |-> [o \in Orders |-> ImportedWorkOrder(o, "MEDIA")],
                              hist |-> <<>>],
                             teams, plan, Orders)
       IN  /\ work_orders = db.wos
           /\ status_history = db.hist

RequestResume(s) ==
  \/ BeginActivate(s, 0, 1, Dispatcher)
  \/ \E e \in Emergencies : BeginDeactivate(s, e, Dispatcher)
  \/ \E o \in Orders, st \in ResumeStatuses : BeginUpdateStatus(s, o, st, Dispatcher)
  \/ \E o \in Orders : BeginAssign(s, o, 2, Dispatcher, "semi-automatica")
  \/ \E o \in Orders : BeginComplete(s, o)

NextResume ==
  \/ RequestResume(1)
  \/ StepActivate(1, FALSE)
  \/ StepDeactivate(1, FALSE)
  \/ StepUpdateStatus(1, FALSE)
  \/ StepAssign(1, FALSE)
  \/ CompleteUpdate(1, FALSE)

SpecResume == InitResume /\ [][NextResume]_vars

\* a request of slot s returns in this step
Returns(s, op) == inflight[s].op = op /\ inflight'[s] = Idle

\* --- C1: of two concurrent assignWorkOrder requests for one order that name different
\* teams at most one wins. A request that returns success has won: when it returns, the
\* order is assigned to the team it named.
C1_SuccessMeansAssigned ==
  [][\A s \in Slots :
       Returns(s, "assignWorkOrder") /\ response'[s].ok
         => work_orders'[response'[s].o].assigned_team_id = response'[s].team_id]_vars

\* --- C2: in every reachable state an order has an assigned team if and only if its
\* status is not ricevuto.
C2_TeamIffNotReceived ==
  \A o \in Orders :
    work_orders[o].present
      => ((work_orders[o].assigned_team_id # NULL) <=> (work_orders[o].status # "ricevuto"))

\* --- C3: the step of mobilizeTeam that suspends a team's orders leaves every order of
\* priority ALTA as it is.
C3_HighPriorityNotSuspended ==
  [][\A s \in Slots :
       At(s, "activateEmergency", "mobilize_orders")
         => \A o \in Orders :
              work_orders[o].priority = "ALTA" => work_orders'[o] = work_orders[o]]_vars

\* a mobilized team keeps its urgent order while its other order has been suspended
C3_Witness ==
  \E e \in Emergencies, t \in Teams, o, p \in Orders :
    /\ emergency_teams[<<e, t>>].status = "allertata"
    /\ inflight[1] = Idle /\ response[1].op = "activateEmergency" /\ response[1].ok
    /\ work_orders[o].priority = "ALTA" /\ work_orders[o].assigned_team_id = t
    /\ work_orders[o].status \in {"assegnato", "in_viaggio"}
    /\ work_orders[p].assigned_team_id = t /\ work_orders[p].status = "sospeso"
    /\ work_orders[p].notes = <<e>>

\* row a does not come after row b in ascending (distance, active orders), both
\* distances being known
RankLeq(tms, wos, location, a, b) ==
  LET da == Abs(tms[a].location - location)
      db == Abs(tms[b].location - location)
      ca == Cardinality({o \in Orders : wos[o].present /\ wos[o].assigned_team_id = a
                                        /\ wos[o].status \notin {"completato", "validato"}})
      cb == Cardinality({o \in Orders : wos[o].present /\ wos[o].assigned_team_id = b
                                        /\ wos[o].status \notin {"completato", "validato"}})
  IN  da < db \/ (da = db /\ ca <= cb)

\* --- C4: an activation that asks for k teams mobilizes min(k, eligible) teams, the
\* eligible ones being active and not fuori_servizio: the first k of them by ascending
\* distance from the emergency, then by ascending count of active orders (teams whose
\* position is not known are not compared).
C4_MobilizesNearest ==
  [][\A s \in Slots :
       Returns(s, "activateEmergency") /\ response'[s].ok
         => LET f == inflight[s].found
                k == inflight[s].required
                l == inflight[s].location
                e == response'[s].emergencyId
                sel == response'[s].mobilizedTeams
                eligible == {t \in Teams : f.teams[t].is_active
                                           /\ f.teams[t].status # "fuori_servizio"}
                mobilized == {t \in Teams : emergency_teams'[<<e, t>>].status = "allertata"}
                known == {t \in Teams : f.teams[t].location # NULL}
            IN  /\ Len(sel) = Min(k, Cardinality(eligible))
                /\ mobilized = {sel[i] : i \in 1..Len(sel)}
                /\ Cardinality(mobilized) = Len(sel)
                /\ mobilized \subseteq eligible
                /\ \A t \in mobilized : teams'[t].status = "in_viaggio"
                /\ \A i, j \in 1..Len(sel) :
                     i < j /\ {sel[i], sel[j]} \subseteq known
                       => RankLeq(f.teams, f.work_orders, l, sel[i], sel[j])
                /\ \A t \in mobilized, u \in eligible \ mobilized :
                     {t, u} \subseteq known
                       => RankLeq(f.teams, f.work_orders, l, t, u)]_vars

\* two teams were asked for at km 10: the team there and the team at km 0 are
\* mobilized in this order, the team out of service is not
C4_Witness ==
  /\ inflight[1] = Idle /\ response[1].op = "activateEmergency" /\ response[1].ok
  /\ emergencies[response[1].emergencyId].location = 10
  /\ \E t, u, w \in Teams :
       /\ response[1].mobilizedTeams = <<t, u>>
       /\ teams[t].location = 10 /\ teams[u].location = 0
       /\ teams[w].status = "fuori_servizio"

\* --- C5: when deactivateEmergency(e) has returned, e is risolta, every emergency team
\* row of e is smobilitata with demobilized_at set, and every team that was mobilized
\* for e is disponibile.
C5_DeactivationReleases ==
  \A s \in Slots :
    (inflight[s] = Idle /\ response[s].op = "deactivateEmergency" /\ response[s].ok)
      => LET e == response[s].e IN
         /\ emergencies[e].status = "risolta"
         /\ \A t \in Teams :
              emergency_teams[<<e, t>>].status # "none"
                => /\ emergency_teams[<<e, t>>].status = "smobilitata"
                   /\ emergency_teams[<<e, t>>].demobilized_at # NULL
                   /\ teams[t].status = "disponibile"

\* a deactivation has returned for an emergency that had mobilized two teams
C5_Witness ==
  /\ inflight[1] = Idle /\ response[1].op = "deactivateEmergency" /\ response[1].ok
  /\ Cardinality({t \in Teams :
                    emergency_teams[<<response[1].e, t>>].status = "smobilitata"}) = 2

\* --- C6: a deactivation of an emergency that was already risolta when it was requested
\* changes the status of no team.
C6_RepeatedDeactivationKeepsTeams ==
  [][\A s \in Slots :
       (/\ inflight[s].op = "deactivateEmergency"
        /\ inflight[s].found.emergencies[inflight[s].e].status = "risolta")
         => \A t \in Teams : teams'[t].status = teams[t].status]_vars

\* --- C7 (as stated): every emergency team row eventually reaches smobilitata.
C7_EventuallyDemobilized ==
  \A k \in Emergencies \X Teams :
    (emergency_teams[k].status = "allertata") ~> (emergency_teams[k].status = "smobilitata")

\* --- C7 (amended): an emergency team row becomes smobilitata only in the demobilize
\* step of a deactivation of its emergency, which stamps demobilized_at; from then on
\* the row never changes, whatever is deactivated again.
C7_DemobilizedOnce ==
  [][\A k \in Emergencies \X Teams :
       /\ emergency_teams[k].status # "smobilitata"
          /\ emergency_teams'[k].status = "smobilitata"
            => /\ emergency_teams[k].status = "allertata"
               /\ emergency_teams[k].demobilized_at = NULL
               /\ emergency_teams'[k].demobilized_at = now
               /\ \E s \in Slots : /\ At(s, "deactivateEmergency", "demobilize")
                                   /\ inflight[s].e = k[1]
       /\ emergency_teams[k].status = "smobilitata"
            => emergency_teams'[k] = emergency_teams[k]]_vars

\* an emergency has been deactivated a second time, later: its row says so and the
\* team row keeps the stamp of the first deactivation
C7_Witness ==
  \E k \in Emergencies \X Teams :
    /\ emergency_teams[k].status = "smobilitata"
    /\ emergency_teams[k].demobilized_at = 0
    /\ emergencies[k[1]].deactivated_at = 1
    /\ inflight[1] = Idle /\ response[1].op = "deactivateEmergency" /\ response[1].ok

\* --- C8: updateStatus to completato, whatever the status of an order that has a team,
\* leaves the order completato with work_completed_at stamped and its team disponibile.
C8_CompletionFreesTeam ==
  \A s \in Slots :
    (/\ inflight[s] = Idle /\ response[s].op = "updateStatus" /\ response[s].ok
     /\ response[s].status = "completato"
     /\ work_orders[response[s].o].assigned_team_id # NULL)
      => LET o == response[s].o IN
         /\ work_orders[o].status = "completato"
         /\ work_orders[o].work_completed_at # NULL
         /\ teams[work_orders[o].assigned_team_id].status = "disponibile"

\* an order is completed while its team is at work on it
C8_Witness ==
  /\ inflight[1] = Idle /\ response[1].op = "updateStatus" /\ response[1].ok
  /\ response[1].status = "completato"
  /\ work_orders[response[1].o].assigned_team_id # NULL
  /\ Len(status_history) = 3
  /\ status_history[2].new_status = "in_lavorazione"
  /\ status_history[3].old_status = "in_lavorazione"
  /\ status_history[3].new_status = "completato"

\* --- C9: updateStatus and assignWorkOrder are atomic: when one returns an error, the
\* orders, the history and the teams are as the request found them.
C9_AtomicLifecycle ==
  [][\A s \in Slots :
       (/\ Returns(s, "assignWorkOrder") \/ Returns(s, "updateStatus")
        /\ ~response'[s].ok)
         => /\ work_orders' = inflight[s].found.work_orders
            /\ status_history' = inflight[s].found.status_history
            /\ teams' = inflight[s].found.teams]_vars

\* --- C10: activateEmergency is all or nothing: when it returns an error, no emergency,
\* emergency team row, team status or suspended order of it remains.
C10_ActivationAllOrNothing ==
  [][\A s \in Slots :
       (Returns(s, "activateEmergency") /\ ~response'[s].ok)
         => /\ emergencies' = inflight[s].found.emergencies
            /\ emergency_teams' = inflight[s].found.emergency_teams
            /\ teams' = inflight[s].found.teams
            /\ work_orders' = inflight[s].found.work_orders
            /\ emergency_timeline' = inflight[s].found.emergency_timeline]_vars

\* C11: the task deferred at the import of an urgent order looks at the order when it
\* fires: once the order has left ricevuto, a step of the task leaves its assignment
\* (assigned_team_id, assigned_by, assignment_mode, assignment_score) as it is.
C11_DeferredTaskRespectsChanges ==
  [][\A s \in Slots :
       (/\ inflight[s].op = "autoAssignHighPriority"
        /\ inflight'[s] # inflight[s]
        /\ work_orders[inflight[s].o].status # "ricevuto")
       => LET before == work_orders[inflight[s].o]
              after == work_orders'[inflight[s].o]
          IN  /\ after.assigned_team_id = before.assigned_team_id
              /\ after.assigned_by = before.assigned_by
              /\ after.assignment_mode = before.assignment_mode
              /\ after.assignment_score = before.assignment_score]_vars

\* the rows of work_orders that hold GEOCALL's order g
RowsOf(wos, g) == {o \in Orders : wos[o].present /\ wos[o].geocall_id = g}

\* C12: importing an order GEOCALL already gave returns the local id it has, inserts no
\* row and sets no timer; importing an unknown one inserts exactly one row, in ricevuto;
\* whatever was imported one run after the other, no external id has two rows.
C12_ImportIdempotent ==
  [][\A s \in Slots :
       (/\ inflight[s].op = "fetchNewWorkOrders"
        /\ inflight'[s] # inflight[s]
        /\ inflight[s].batch # <<>>)
       => LET r == inflight[s]
              g == Head(r.batch)
              known == RowsOf(work_orders, g)
              new == {o \in Orders : work_orders'[o] # work_orders[o]}
              imported == inflight'[s].imported
          IN  /\ (r.pc = "select" /\ known # {})
                   => /\ work_orders' = work_orders
                      /\ timers' = timers
                      /\ imported = Append(r.imported, CHOOSE o \in known : TRUE)
              /\ (r.pc = "select" /\ known = {}) => work_orders' = work_orders
              /\ r.pc = "insert"
                   => /\ Cardinality(new) = 1
                      /\ \A o \in new : /\ ~work_orders[o].present
                                         /\ work_orders'[o].present
                                         /\ work_orders'[o].status = "ricevuto"
                                         /\ work_orders'[o].geocall_id = g
                                         /\ imported = Append(r.imported, o)
              /\ \A x \in ExternalIds : Cardinality(RowsOf(work_orders', x)) <= 1]_vars

\* a run was given the urgent order twice: it stored it once and returned its id twice
C12_Witness ==
  /\ response[1].op = "fetchNewWorkOrders"
  /\ response[1].imported = <<1, 1>>
  /\ RowsOf(work_orders, "g1") = {1}
  /\ ~work_orders[2].present

\* C13: a firing of the polling task is skipped while the run before it is executing:
\* no two runs of fetchNewWorkOrders are in progress at once.
C13_OneRunAtATime == Cardinality(RunsInFlight) <= 1

\* C14: two runs that import the same external order, however they interleave, leave
\* one local order for it and set at most one timer for it.
C14_InterleavedImportIdempotent ==
  \A g \in ExternalIds :
    /\ Cardinality(RowsOf(work_orders, g)) <= 1
    /\ Cardinality({o \in timers : work_orders[o].geocall_id = g}) <= 1

\* the unresolved alerts of a kind that a vehicle was given in the 24 hours before time t
RecentAlerts(alerts, v, alertType, t) ==
  {i \in 1..Len(alerts) : /\ alerts[i].vehicle_id = v
                          /\ alerts[i].alert_type = alertType
                          /\ ~alerts[i].is_resolved
                          /\ alerts[i].created_at > t - 24}

\* C15: when a report with a speed over 90 has been served, the vehicle has exactly one
\* unresolved velocita_eccessiva alert of the last 24 hours, of severity medium: the
\* report created it if there was none, and created none if there was one; a report that
\* is not over 90 creates none.
C15_SpeedAlertOncePerDay ==
  [][\A s \in Slots :
       (inflight[s].op = "updateVehicleLocation" /\ inflight'[s] # inflight[s])
       => LET r == inflight[s]
              before == RecentAlerts(vehicle_alerts, r.v, "velocita_eccessiva", now)
              after == RecentAlerts(vehicle_alerts', r.v, "velocita_eccessiva", now)
          IN  /\ (r.speed > 90 /\ inflight'[s] = Idle)
                   => /\ Cardinality(after) = 1
                      /\ \A i \in after : vehicle_alerts'[i].severity = "medium"
              /\ Cardinality(after) > Cardinality(before) => (r.speed > 90 /\ before = {})
              /\ r.speed <= 90 => after = before]_vars

\* vehicle 1 was fast at midnight and is fast again eight hours later: the second report
\* is past its speed check and the alert of midnight is still the only one
C15_Witness ==
  /\ now = 8
  /\ inflight[1].op = "updateVehicleLocation"
  /\ inflight[1].pc = "hour"
  /\ inflight[1].v = 1
  /\ inflight[1].speed = 95
  /\ \E i \in 1..Len(vehicle_alerts) :
        /\ vehicle_alerts[i].vehicle_id = 1
        /\ vehicle_alerts[i].alert_type = "velocita_eccessiva"
        /\ vehicle_alerts[i].created_at = 0
        /\ RecentAlerts(vehicle_alerts, 1, "velocita_eccessiva", now) = {i}

\* the crew of vehicle v is allertata, in_viaggio or sul_posto for an active emergency
Mobilized(v) ==
  \E e \in Emergencies :
    /\ emergencies[e].present
    /\ emergencies[e].status \in {"attiva", "in_gestione"}
    /\ emergency_teams[<<e, vehicles[v].assigned_team_id>>].status
         \in {"allertata", "in_viaggio", "sul_posto"}

Night == now % 24 >= 22 \/ now % 24 < 6

NightAlerts(alerts, v) ==
  {i \in 1..Len(alerts) : alerts[i].vehicle_id = v /\ alerts[i].alert_type = "uso_fuori_orario"}

\* C16: a report made between 22:00 and 06:00 leaves the vehicle with an unresolved
\* uso_fuori_orario alert of the last 24 hours, of severity low, unless its crew is
\* mobilized for an active emergency; no such alert is created while the crew is mobilized
\* or by day; once the emergency is deactivated the night reports raise it again.
C16_NightAlertUnlessMobilized ==
  [][\A s \in Slots :
       (inflight[s].op = "updateVehicleLocation" /\ inflight'[s] # inflight[s])
       => LET v == inflight[s].v
              created == NightAlerts(vehicle_alerts', v) \ NightAlerts(vehicle_alerts, v)
          IN  /\ created # {} => Night /\ ~Mobilized(v)
              /\ \A i \in created : vehicle_alerts'[i].severity = "low"
              /\ (inflight'[s] = Idle /\ response'[s].ok /\ Night /\ ~Mobilized(v))
                   => Cardinality(RecentAlerts(vehicle_alerts', v, "uso_fuori_orario", now)) = 1]_vars

\* the crew of vehicle 1 was mobilized at midnight and released since; the vehicle had no
\* alert that night, and the night after its report raised one
C16_Witness ==
  /\ now = 24
  /\ response[1].op = "updateVehicleLocation"
  /\ response[1].v = 1
  /\ ~Mobilized(1)
  /\ emergency_teams[<<1, 1>>].status = "smobilitata"
  /\ emergency_teams[<<1, 1>>].mobilized_at = 0
  /\ [vehicle_id |-> 1, location |-> 10, speed |-> 50] \in vehicle_gps_tracks
  /\ \E i \in 1..Len(vehicle_alerts) :
        /\ NightAlerts(vehicle_alerts, 1) = {i}
        /\ vehicle_alerts[i].created_at = 24

\* C17: an order becomes sospeso only in the step of mobilizeTeam that suspends the
\* orders of a mobilized crew, and only from assegnato or in_viaggio; no step of
\* updateStatus makes an order sospeso.
C17_SuspendedOnlyByMobilization ==
  [][\A o \in Orders :
       (work_orders'[o].status = "sospeso" /\ work_orders[o].status # "sospeso")
       => /\ work_orders[o].status \in {"assegnato", "in_viaggio"}
          /\ \E s \in Slots : At(s, "activateEmergency", "mobilize_orders")
                          /\ inflight'[s] # inflight[s]]_vars

\* C18: when the auto-assignment key is not 'true' (another value, or no such key),
\* autoAssignHighPriority returns false, raises nothing and changes no table.
C18_DisabledReturnsFalse ==
  [][\A s \in Slots :
       (/\ inflight[s].op = "autoAssignHighPriority"
        /\ inflight'[s] # inflight[s]
        /\ system_config[AutoAssignKey] # "true")
       => /\ inflight'[s] = Idle
          /\ response'[s].ok
          /\ response'[s].returned = FALSE
          /\ UNCHANGED tables]_vars

\* C19: with the key 'true' and at least one candidate crew, autoAssignHighPriority
\* returns true and the order is assigned, in mode automatica and by nobody, to a crew
\* that no candidate outscores.
C19_AutoAssignsBestTeam ==
  [][\A s \in Slots :
       (/\ inflight[s].op = "autoAssignHighPriority"
        /\ inflight'[s] = Idle
        /\ system_config[AutoAssignKey] = "true"
        /\ CandidateTeams(teams) # {})
       => LET r == inflight[s]
              order == work_orders'[r.o]
              wos == r.found.work_orders
          IN  /\ response'[s].ok
              /\ response'[s].returned
              /\ order.status = "assegnato"
              /\ order.assignment_mode = "automatica"
              /\ order.assigned_by = NoUser
              /\ order.assigned_team_id \in CandidateTeams(teams)
              /\ \A t \in CandidateTeams(teams) :
                    TotalScore(wos, teams, r.o, t)
                      <= TotalScore(wos, teams, r.o, order.assigned_team_id)]_vars

\* crew 1 is at work 10 km away and holds the first order, crew 2 is out of service and
\* crew 3 is free on the spot: the timer of the urgent order has given it to crew 3
C19_Witness ==
  /\ response[2].op = "autoAssignHighPriority"
  /\ response[2].ok
  /\ response[2].returned
  /\ teams[1].status = "in_lavorazione"
  /\ teams[2].status = "fuori_servizio"
  /\ teams[3].status = "disponibile" /\ teams[3].is_active
  /\ work_orders[2].priority = "ALTA"
  /\ work_orders[2].status = "assegnato"
  /\ work_orders[2].assigned_team_id = 3
  /\ work_orders[2].assignment_mode = "automatica"
  /\ work_orders[2].assigned_by = NoUser

\* C20: the list calculateOptimalAssignment returns holds exactly the crews that are
\* active and disponibile, in_viaggio or in_lavorazione; each is scored on the number of
\* its orders that are neither completato nor validato; the scores never increase along
\* the list.
C20_RankingOfCandidates ==
  [][\A s \in Slots :
       (At(s, "autoAssignHighPriority", "rank") /\ At(s, "autoAssignHighPriority", "calculate")')
       => LET list == inflight'[s].ranking
              load(t) == Cardinality({o \in Orders :
                           /\ work_orders[o].present
                           /\ work_orders[o].assigned_team_id = t
                           /\ work_orders[o].status \notin {"completato", "validato"}})
          IN  /\ {list[i].team_id : i \in 1..Len(list)}
                   = {t \in Teams : /\ teams[t].is_active
                                    /\ teams[t].status \in {"disponibile", "in_viaggio",
                                                             "in_lavorazione"}}
              /\ \A i \in 1..Len(list) :
                    list[i].scores.workload = Max(0, 100 - 20 * load(list[i].team_id))
              /\ \A i, j \in 1..Len(list) :
                    i < j => list[i].total_score >= list[j].total_score]_vars

\* crew 3 is out of service; crew 2 is at work, farther, and holds the first order; the
\* list is crew 1, then crew 2 with its order counted
C20_Witness ==
  /\ At(2, "autoAssignHighPriority", "calculate")
  /\ teams[3].status = "fuori_servizio"
  /\ teams[2].status = "in_lavorazione"
  /\ work_orders[1].assigned_team_id = 2
  /\ work_orders[1].status = "assegnato"
  /\ Len(inflight[2].ranking) = 2
  /\ inflight[2].ranking[1].team_id = 1
  /\ inflight[2].ranking[2].team_id = 2
  /\ inflight[2].ranking[2].scores.workload = 80

\* C21: a failure of GEOCALL (sendStatusUpdate or sendCompletedReport throwing) during an
\* assignment, a status change or a completion does not reach the caller and undoes
\* nothing: no step of the synchronisation changes a table, and the handler answers
\* success for the same order whatever became of the synchronisation.
C21_SyncFailureNotPropagated ==
  [][\A s \in Slots :
       (InSync(s) /\ inflight'[s] # inflight[s]) =>
         /\ UNCHANGED tables
         /\ inflight'[s] = Idle =>
              /\ response'[s].op = "res.json"
              /\ response'[s].ok
              /\ response'[s].error = "none"
              /\ response'[s].handler = inflight[s].handler
              /\ response'[s].o = inflight[s].o]_vars

\* GEOCALL failed after a status change: the handler answered success, and the order,
\* its history row and its crew are as updateStatus wrote them
C21_Witness ==
  /\ response[1].op = "res.json"
  /\ response[1].sync = "error"
  /\ response[1].handler = "updateStatus"
  /\ response[1].ok
  /\ work_orders[1].status = "in_viaggio"
  /\ work_orders[1].assigned_team_id = 1
  /\ teams[1].status = "in_viaggio"
  /\ \E i \in 1..Len(status_history) :
       status_history[i].work_order_id = 1 /\ status_history[i].new_status = "in_viaggio"

\* the operations that assign an order or change its status
ChangingOps ==
  {"assignWorkOrder", "updateStatus", "completeWorkOrder", "autoAssignHighPriority"}

\* C22: every assignment (manual or automatic) and every status change is followed by a
\* call of sendStatusUpdate or sendCompletedReport for the order: an operation that has
\* assigned an order or changed its status returns to a handler that goes on to tell
\* GEOCALL.
C22_EveryChangeIsSent ==
  [][\A s \in Slots :
       (/\ inflight[s].op \in ChangingOps
        /\ inflight'[s] = Idle
        /\ response'[s].ok
        /\ (inflight[s].op = "autoAssignHighPriority" => response'[s].returned))
       => AwaitsSync(s)']_vars

\* C23: work order codes are unique: no two orders of the store carry the same code, also
\* when two imports generate their codes at the same time within the same month.
C23_CodesUnique ==
  \A o1, o2 \in Orders :
    (o1 # o2 /\ work_orders[o1].present /\ work_orders[o2].present)
      => work_orders[o1].code # work_orders[o2].code

\* the row the loop has scored in slot s
Scored(s) == response[s].op = "calculateOptimalAssignment" /\ response[s].ok

\* C24: for an order and a crew at distance d km the distance score is max(0, 100 - d),
\* so it lies in 0..100 (100 at d = 0, 50 at d = 50, 0 from d = 100 on); when the order or
\* the crew is not located the score is 0 and no error is raised.
C24_DistanceScore ==
  \A s \in Slots :
    Scored(s) =>
      LET from == teams[response[s].team_id].location
          to == work_orders[response[s].o].location
          d == IF from > to THEN from - to ELSE to - from
          score == response[s].scores.distance
      IN  /\ (from = NULL \/ to = NULL) => score = 0
          /\ (from # NULL /\ to # NULL) => score = (IF d >= 100 THEN 0 ELSE 100 - d)
          /\ score \in 0..100

\* C25: for n active orders the workload score is max(0, 100 - 20n): 100 at n = 0,
\* 0 at n = 5, and 0, never negative, for every n above 5.
C25_WorkloadScore ==
  \A s \in Slots :
    Scored(s) =>
      LET n == response[s].active_work_orders
          score == response[s].scores.workload
      IN  /\ score = (IF n >= 5 THEN 0 ELSE 100 - 20 * n)
          /\ score >= 0
          /\ n = 0 => score = 100

\* a crew with more than five active orders has been scored: its workload score is 0
C25_Witness ==
  /\ Scored(1)
  /\ response[1].active_work_orders = 8
  /\ response[1].scores.workload = 0

\* the required types of which crew t holds an unexpired certificate
HeldRequired(o, t) ==
  {c \in getRequiredCompetences(work_orders[o].type) : team_competences[t][c] > 0}

\* C26: the competence score is 100 when the order's type requires no competence; otherwise
\* it is 100 times the number of required types the crew holds an unexpired certificate
\* of, over the number of required types, and so lies in 0..100, also when the crew holds
\* several certificates of the same type.
C26_CompetenceScore ==
  \A s \in Slots :
    Scored(s) =>
      LET required == getRequiredCompetences(work_orders[response[s].o].type)
          score == response[s].scores.competence
      IN  /\ required = {} => score = 100
          /\ required # {} =>
               score = (100 * Cardinality(HeldRequired(response[s].o, response[s].team_id)))
                         \div Cardinality(required)
          /\ score \in 0..100

\* C27: the aggregate score is the weighted sum of the four scores, not clamped and not
\* normalised, with the materials score 100 for a type that requires no material and 70
\* otherwise; with the default weights a crew at 10 km with no active order scores 96 for
\* an order that requires nothing and 90 for one that requires materials (in hundredths).
C27_AggregateScore ==
  \A s \in Slots :
    Scored(s) =>
      LET r == response[s]
          type == work_orders[r.o].type
          configured == system_config["scoring_weight_distance"]
          w == IF configured = NULL THEN [d |-> 40, c |-> 25, m |-> 20, w |-> 15]
               ELSE [d |-> configured, c |-> configured, m |-> configured, w |-> configured]
          near == /\ configured = NULL
                  /\ r.scores.distance = 90
                  /\ r.scores.competence = 100
                  /\ r.active_work_orders = 0
      IN  /\ r.scores.materials = (IF getRequiredMaterials(type) = {} THEN 100 ELSE 70)
          /\ r.total_score = r.scores.distance * w.d + r.scores.competence * w.c
                               + r.scores.materials * w.m + r.scores.workload * w.w
          /\ (near /\ type = "altro") => r.total_score = 9600
          /\ (near /\ type = "riparazione_perdita") => r.total_score = 9000

\* the second example: the crew at 10 km, certified, idle, for a repair that needs materials
C27_Witness ==
  /\ Scored(1)
  /\ system_config["scoring_weight_distance"] = NULL
  /\ work_orders[1].type = "riparazione_perdita"
  /\ teams[1].location = 10
  /\ work_orders[1].location = 0
  /\ response[1].active_work_orders = 0
  /\ response[1].scores.materials = 70
  /\ response[1].total_score = 9000

\* C28: updateStatus on an order that does not exist fails with the not-found error and
\* writes nothing: no order is created or changed, no history row is appended and no
\* crew changes status.
C28_UpdateStatusNotFound ==
  [][\A s \in Slots :
       (/\ inflight[s].op = "updateStatus"
        /\ ~work_orders[inflight[s].o].present
        /\ inflight'[s] # inflight[s])
       => /\ UNCHANGED tables
          /\ inflight'[s] = Idle
          /\ ~response'[s].ok
          /\ response'[s].error = "ODL non trovato"]_vars

\* updateStatus has been refused for an order that is not in the store
C28_Witness ==
  /\ response[1].op = "updateStatus"
  /\ response[1].error = "ODL non trovato"
  /\ ~work_orders[2].present
  /\ work_orders[1].present

\* C29: deactivateEmergency on an emergency that does not exist fails with a not-found
\* error surfaced to the caller and writes nothing: no timeline event is logged for the
\* absent emergency and no emergency_teams row or crew status changes.
C29_DeactivateNotFound ==
  [][\A s \in Slots :
       (/\ inflight[s].op = "deactivateEmergency"
        /\ ~emergencies[inflight[s].e].present
        /\ inflight'[s] # inflight[s])
       => /\ UNCHANGED tables
          /\ inflight'[s] = Idle =>
               ~response'[s].ok /\ response'[s].error = "Emergency not found"]_vars

\* C30: updateStatus changes the status of at most one crew, the one assigned to the
\* order, and only for three target statuses: in_viaggio sets it to in_viaggio,
\* in_lavorazione to in_lavorazione, completato to disponibile; for every other target
\* status every crew is left as it is, and no crew other than the order's is ever changed.
C30_UpdateStatusTeamEffect ==
  [][\A s \in Slots :
       (inflight[s].op = "updateStatus" /\ inflight'[s] # inflight[s]) =>
         LET r == inflight[s]
             assigned == work_orders[r.o].assigned_team_id
             wanted == CASE r.status = "in_viaggio" -> "in_viaggio"
                         [] r.status = "in_lavorazione" -> "in_lavorazione"
                         [] r.status = "completato" -> "disponibile"
                         [] OTHER -> "none"
         IN  /\ \A t \in Teams :
                  teams'[t] # teams[t] =>
                    /\ t = assigned
                    /\ wanted # "none"
                    /\ teams'[t] = [teams[t] EXCEPT !.status = wanted]
             /\ (r.pc = "team" /\ assigned \in Teams) => teams'[assigned].status = wanted
             /\ (inflight'[s] = Idle /\ response'[s].ok /\ wanted # "none") => r.pc = "team"]_vars

\* updateStatus(in_viaggio) has moved the crew of the order and no other crew
C30_Witness ==
  /\ response[1].op = "updateStatus"
  /\ response[1].ok
  /\ response[1].status = "in_viaggio"
  /\ work_orders[1].assigned_team_id = 2
  /\ teams[2].status = "in_viaggio"
  /\ teams[1].status = "disponibile"
  /\ teams[3].status = "disponibile"

\* --- C31: assignWorkOrder with a team that calculateOptimalAssignment does not list
\* does not fail: whenever the order exists and some crew is a candidate the call
\* succeeds, and it leaves the order assegnato with the given team, actor and mode,
\* assigned_at stamped and assignment_score 0 when the team is not a candidate, the
\* team's aggregate score when it is.
C31_AssignScore ==
  [][\A s \in Slots :
       Returns(s, "assignWorkOrder") =>
         LET r == inflight[s]
             f == r.found
             listed == {t \in Teams : /\ f.teams[t].is_active
                                      /\ f.teams[t].status # "fuori_servizio"}
         IN  (f.work_orders[r.o].present /\ listed # {}) =>
               /\ response'[s].ok
               /\ work_orders'[r.o] =
                    [f.work_orders[r.o] EXCEPT
                       !.status = "assegnato",
                       !.assigned_team_id = r.t,
                       !.assigned_by = r.by,
                       !.assignment_mode = r.mode,
                       !.assigned_at = now,
                       !.assignment_score =
                          IF r.t \in listed
                          THEN TotalScore(f.work_orders, f.teams, r.o, r.t)
                          ELSE 0]]_vars

\* an order given with success to a crew out of service, with score 0
C31_Witness ==
  /\ response[1].op = "assignWorkOrder"
  /\ response[1].ok
  /\ response[1].team_id = 3
  /\ teams[3].status = "fuori_servizio"
  /\ teams[1].status = "disponibile"
  /\ work_orders[1].status = "assegnato"
  /\ work_orders[1].assigned_team_id = 3
  /\ work_orders[1].assignment_score = 0

\* --- C32: each successful assignWorkOrder appends exactly one row to the status
\* history of the order, with new_status assegnato, changed_by the assigning actor and
\* old_status the status the order held when the assignment was applied (ricevuto for
\* an order just received).
C32_AssignHistoryEntry ==
  [][\A s \in Slots :
       (Returns(s, "assignWorkOrder") /\ response'[s].ok) =>
         LET r == inflight[s] IN
           status_history' =
             Append(r.found.status_history,
                    [work_order_id |-> r.o,
                     old_status |-> r.found.work_orders[r.o].status,
                     new_status |-> "assegnato",
                     changed_by |-> r.by])]_vars

\* what the code does instead: the row is appended after the UPDATE, with the status
\* the UPDATE has just written as old_status
C32_OldStatusIsAssigned ==
  [][\A s \in Slots :
       (Returns(s, "assignWorkOrder") /\ response'[s].ok) =>
         LET r == inflight[s] IN
           status_history' =
             Append(r.found.status_history,
                    [work_order_id |-> r.o,
                     old_status |-> "assegnato",
                     new_status |-> "assegnato",
                     changed_by |-> r.by])]_vars

\* the rows of the status history of order o, oldest first
HistoryOf(o) ==
  LET OfOrder(row) == row.work_order_id = o IN SelectSeq(status_history, OfOrder)

\* --- C33: the status history is a complete audit trail: whenever no request is being
\* served, an order whose status is not ricevuto has a newest history row whose
\* new_status is its current status, and each row's old_status is the new_status of the
\* row before it.
C33_HistoryComplete ==
  (\A s \in Slots : inflight[s] = Idle) =>
    \A o \in Orders :
      (work_orders[o].present /\ work_orders[o].status # "ricevuto") =>
        LET rows == HistoryOf(o) IN
          /\ rows # <<>>
          /\ rows[Len(rows)].new_status = work_orders[o].status
          /\ \A i \in 2..Len(rows) : rows[i].old_status = rows[i - 1].new_status

\* the half that holds: rows are only ever appended
C33_AppendOnly ==
  [][\E k \in 0..1 : SubSeq(status_history', 1, Len(status_history') - k) = status_history]_vars

\* --- C34: alert deduplication holds when GPS reports of one vehicle are served at the
\* same time: no two unresolved alerts of one vehicle and one type are created within
\* 24 hours of each other.
C34_DedupUnderInterleaving ==
  \A i, j \in 1..Len(vehicle_alerts) :
    (/\ i < j
     /\ vehicle_alerts[i].vehicle_id = vehicle_alerts[j].vehicle_id
     /\ vehicle_alerts[i].alert_type = vehicle_alerts[j].alert_type
     /\ ~vehicle_alerts[i].is_resolved
     /\ ~vehicle_alerts[j].is_resolved)
    => vehicle_alerts[j].created_at - vehicle_alerts[i].created_at >= AlertWindow

\* the unresolved emergencies team t is engaged in
Engagements(t) ==
  {e \in Emergencies : /\ emergencies[e].present
                       /\ emergencies[e].status # "risolta"
                       /\ emergency_teams[<<e, t>>].status \notin {"none", "smobilitata"}}

\* --- C35: a team is engaged in at most one unresolved emergency at a time: no
\* activation mobilizes a team that has a record that is not smobilitata for another
\* emergency that is not risolta.
C35_OneEmergencyPerTeam ==
  \A t \in Teams : Cardinality(Engagements(t)) <= 1

\* the consequence: deactivateEmergency never sets to disponibile a
\* team that is engaged in another unresolved emergency
C35_ReleasedTeamIsFree ==
  [][\A s \in Slots, t \in Teams :
       (/\ inflight[s].op = "deactivateEmergency"
        /\ teams'[t] # teams[t]
        /\ teams'[t].status = "disponibile")
       => Engagements(t) \ {inflight[s].e} = {}]_vars

\* --- C36: a work order is only ever assigned to an eligible team: whenever an
\* assignment writes the order, its assigned_team_id is a team that is active and not
\* fuori_servizio at that moment.
C36_AssignedTeamEligible ==
  [][\A o \in Orders :
       (/\ work_orders'[o] # work_orders[o]
        /\ \E s \in Slots : inflight[s].op \in {"assignWorkOrder", "autoAssignHighPriority"}
                            /\ inflight'[s] # inflight[s])
       => LET t == work_orders'[o].assigned_team_id IN
            /\ t \in Teams
            /\ teams[t].is_active
            /\ teams[t].status # "fuori_servizio"]_vars

\* the request of slot s takes a step
Acts(s, ops) == inflight[s].op \in ops /\ inflight'[s] # inflight[s]

\* --- C37: deactivateEmergency changes no work order: the orders that mobilizeTeam
\* suspended keep status sospeso, their team and their notes when the emergency is
\* deactivated; an order leaves sospeso only through a later updateStatus,
\* assignWorkOrder or completion by the complete endpoint.
C37_DeactivationKeepsOrders ==
  [][/\ \A s \in Slots : Acts(s, {"deactivateEmergency"}) => work_orders' = work_orders
     /\ \A o \in Orders :
          (work_orders[o].status = "sospeso" /\ work_orders'[o].status # "sospeso")
          => \E s \in Slots :
               Acts(s, {"updateStatus", "assignWorkOrder", "completeWorkOrder"})]_vars

\* the emergency that suspended order 1 of crew 1 has been deactivated: the crew is
\* disponibile again and the order still sospeso, with its note
C37_Witness ==
  /\ response[1].op = "deactivateEmergency"
  /\ response[1].ok
  /\ emergencies[response[1].e].status = "risolta"
  /\ work_orders[1].status = "sospeso"
  /\ work_orders[1].assigned_team_id = 1
  /\ work_orders[1].notes = <<response[1].e>>
  /\ teams[1].status = "disponibile"

\* C37 as first stated: an order leaves sospeso only through updateStatus or
\* assignWorkOrder
C37_LeavesOnlyByLifecycle ==
  [][\A o \in Orders :
       (work_orders[o].status = "sospeso" /\ work_orders'[o].status # "sospeso")
       => \E s \in Slots : Acts(s, {"updateStatus", "assignWorkOrder"})]_vars

\* --- C38: team status is consistent with its work orders: whenever no request is being
\* served, a team whose status is disponibile has no assigned work order in status
\* in_viaggio or in_lavorazione.
C38_AvailableTeamNotAtWork ==
  (\A s \in Slots : inflight[s] = Idle) =>
    \A t \in Teams, o \in Orders :
      (/\ teams[t].status = "disponibile"
       /\ work_orders[o].present
       /\ work_orders[o].assigned_team_id = t)
      => work_orders[o].status \notin {"in_viaggio", "in_lavorazione"}

\* --- C39: calculateOptimalAssignment lists each candidate team exactly once, whatever
\* the number of vehicles of the team: no two entries of a ranking name the same team.
C39_EachTeamRankedOnce ==
  \A s \in Slots :
    inflight[s].op = "autoAssignHighPriority" =>
      LET ranking == inflight[s].ranking IN
        \A i, j \in 1..Len(ranking) :
          i # j => ranking[i].team_id # ranking[j].team_id

\* the half that holds: the entries of one team carry the same scores, and the
\* workload score is the one of the team's active orders, not multiplied by its vehicles
C39_VehiclesKeepTheCount ==
  \A s \in Slots :
    inflight[s].op = "autoAssignHighPriority" =>
      LET ranking == inflight[s].ranking IN
        \A i \in 1..Len(ranking) :
          ranking[i].scores.workload =
            Max(0, 100 - 20 * Cardinality({o \in Orders :
                    /\ inflight[s].found.work_orders[o].present
                    /\ inflight[s].found.work_orders[o].assigned_team_id = ranking[i].team_id
                    /\ inflight[s].found.work_orders[o].status \notin {"completato", "validato"}}))

\* the weight of the criterion of key k as C40 has it: the configured value whenever
\* one is configured, the default otherwise
ConfiguredOrDefault(k, default) ==
  IF system_config[k] = NULL THEN default ELSE system_config[k]

\* --- C40: the aggregate score uses exactly the configured weight of each criterion
\* whenever one is configured, 0 included (a criterion of weight 0 contributes nothing),
\* and the defaults 0.40, 0.25, 0.20, 0.15 only for the criteria with no configured weight.
C40_ConfiguredWeightsUsed ==
  \A s \in Slots :
    Scored(s) =>
      LET r == response[s] IN
        r.total_score =
          r.scores.distance * ConfiguredOrDefault("scoring_weight_distance", 40)
          + r.scores.competence * ConfiguredOrDefault("scoring_weight_competence", 25)
          + r.scores.materials * ConfiguredOrDefault("scoring_weight_materials", 20)
          + r.scores.workload * ConfiguredOrDefault("scoring_weight_workload", 15)

\* the half that holds: with no weight configured as 0, the configured weights and the
\* defaults are used as C40 says
C40_NonZeroWeightsUsed ==
  (\A k \in WeightKeys : system_config[k] # 0) => C40_ConfiguredWeightsUsed

====
